---- MODULE Spec2Model ----
(***************************************************************************)
(* Model of the CloudPrivateIPConfig (CPIC) reconciler of the              *)
(* cloud-network-config-controller: SyncHandler, computeOp, the informer   *)
(* event handlers that feed the work queue, the cluster API object store   *)
(* (optimistic concurrency on resourceVersion, finalizer-gated deletion)   *)
(* and the cloud, for ONE CloudPrivateIPConfig key (one IP).               *)
(*                                                                         *)
(* SyncHandler is a long-running handler that blocks on every cluster API  *)
(* call, every cloud API call and on WaitForResponse; each of these        *)
(* blocking calls is one step of the model, so that consumer writes and    *)
(* controller crashes interleave exactly where the code can be preempted.  *)
(***************************************************************************)
EXTENDS Integers, Sequences, FiniteSets, TLC

(* ------------------------------ bounds -------------------------------- *)
\* number of cloud calls (assign / release / wait) that may return an error
MaxCloudErrors == 1
\* number of controller crash / restarts
MaxCrashes == 1
\* number of consumer writes (spec.node changes and the delete request)
MaxConsumerOps == 2
\* number of items the event handlers add to the work queue
MaxEnqueues == 3
\* number of syncHandler calls of the scaffold that may return an error
MaxSyncErrors == 2
\* number of SIGINT / SIGTERM sent to the process from outside
MaxSignals == 2
\* number of events the informer delivers for secrets
MaxSecretEvents == 3
\* number of events fsnotify delivers for the credentials directory
MaxWatchEvents == 2
\* number of cloud calls and writes of one replica's reconcilers
MaxReplicaCalls == 2
\* number of changes other clients make to the nodes, restarts of the node
\* controller included
MaxNodeEvents == 3
\* number of GetNodeSubnet calls that may return an error
MaxSubnetErrors == 1
\* number of requests the admission webhook serves
MaxRequests == 2
\* number of AssignPrivateIP calls made to the provider adapters
MaxProviderCalls == 2
\* length of the lists spec.items and status.items given to
\* computeRequestDiff
MaxItems == 2
\* length of the list given to isValidSpec
MaxSpecItems == 3
\* writes of other clients to the object while a sync writes it
MaxOtherWrites == 3
\* times the key is processed again after a write has failed
MaxResyncs == 2
\* items the event handlers add to the work queue of a controller that runs
MaxRunItems == 2
\* network interfaces of a GCP instance
MaxInterfaces == 2
\* alias ranges of a network interface
MaxAliasRanges == 2

(* --------------------------- program constants ------------------------ *)
Nodes == {"nodeA", "nodeB"}
NoNode == ""

cloudPrivateIPConfigFinalizer == "cloudprivateipconfig.cloud.network.openshift.io/finalizer"
cloudResponseReasonPending == "CloudResponsePending"
cloudResponseReasonError == "CloudResponseError"
cloudResponseReasonSuccess == "CloudResponseSuccess"

ConditionTrue == "True"
ConditionFalse == "False"
ConditionUnknown == "Unknown"

(* ------------------------------ the object ---------------------------- *)
\* metav1.Condition of type Assigned (message and lastTransitionTime are
\* not modelled: nothing reads them)
Condition(st, reason, gen) ==
  [type |-> "Assigned", status |-> st, reason |-> reason, observedGeneration |-> gen]

\* CloudPrivateIPConfigStatus{Node, Conditions}
Status(node, conds) == [node |-> node, conditions |-> conds]

NoStatus == Status(NoNode, << >>)

\* a CloudPrivateIPConfig as the consumer creates it: spec.node set, empty
\* status, no finalizer, no deletionTimestamp
NewObject(n) ==
  [exists |-> TRUE, specNode |-> n, statusNode |-> NoNode, conditions |-> << >>,
   finalizers |-> {}, deletionTimestamp |-> FALSE, resourceVersion |-> 1]

\* no object
NoObject ==
  [exists |-> FALSE, specNode |-> NoNode, statusNode |-> NoNode, conditions |-> << >>,
   finalizers |-> {}, deletionTimestamp |-> FALSE, resourceVersion |-> 0]

\* the key has no object in the store any more; the store's revision goes on
Deleted(o) ==
  [exists |-> FALSE, specNode |-> NoNode, statusNode |-> NoNode, conditions |-> << >>,
   finalizers |-> {}, deletionTimestamp |-> FALSE,
   resourceVersion |-> o.resourceVersion + 1]

ContainsFinalizer(o, f) == f \in o.finalizers
AddFinalizer(o, f) == [o EXCEPT !.finalizers = @ \cup {f}]
RemoveFinalizer(o, f) == [o EXCEPT !.finalizers = @ \ {f}]

VARIABLES
  obj,     \* the CloudPrivateIPConfig held by the cluster API (and the cache)
  cloud,   \* the nodes whose primary NIC holds the IP in the cloud
  queued,  \* the key is in the work queue
  pc,      \* the position of the worker inside SyncHandler ("idle": outside)
  local,   \* SyncHandler's local variables
  h,       \* what the running (or last) sync has done: its calls and result
  env      \* how many errors, crashes and consumer writes have happened

\* the variables of the CloudPrivateIPConfig reconciler
cpicVars == <<obj, cloud, queued, pc, local, h, env>>

VARIABLES
  Workqueue,  \* the rate limited work queue of a controller
  worker,     \* the position of each worker in processNextWorkItem
  events      \* what the informer's event handlers have enqueued so far

\* the variables of the controller scaffold (work queue and workers)
queueVars == <<Workqueue, worker, events>>

VARIABLES
  sigCh,        \* the signals waiting in the signal handler's channel c
  handler,      \* the position of the signal handler's goroutine
  stopCh,       \* how often the stop channel was closed
  ctx,          \* the global context is cancelled
  leader,       \* the position of main inside leaderelection.RunOrDie
  controllers,  \* the controllers whose Run has not returned (the WaitGroup)
  exit,         \* the exit code of the process, once it has ended
  triggers      \* the external shutdown triggers that have occurred

\* the variables of the process: main, signal handler, leader election
procVars == <<sigCh, handler, stopCh, ctx, leader, controllers, exit, triggers>>

VARIABLES
  secrets,      \* the secrets held by the cluster API (and the cache)
  secretQueue,  \* the keys in the secret controller's work queue
  cancelCalls,  \* how often the secret controller called controllerCancel
  secretEvents  \* the secret events delivered so far

\* the variables of the secret controller
secretVars == <<secrets, secretQueue, cancelCalls, secretEvents>>

VARIABLES
  watcher       \* the file watcher of the credentials directory

\* the variables of the cloud provider's file watcher
watchVars == <<watcher>>

VARIABLES
  lease,        \* the holder of the leader election lock
  replica       \* the replicas of the controller

\* the variables of the leader election among the replicas
electVars == <<lease, replica>>

VARIABLES
  nodes,        \* the nodes held by the cluster API
  nodeCache,    \* the nodes in the informer's cache (the lister)
  nodeQueue,    \* the keys in the node controller's work queue
  nodeSync,     \* the position of the node controller's SyncHandler
  nodeHist      \* what has happened to the nodes so far

\* the variables of the node controller
nodeVars == <<nodes, nodeCache, nodeQueue, nodeSync, nodeHist>>

VARIABLES
  clusterNodes, \* the names of the nodes the cluster API holds
  admission     \* the admission webhook: its last request and response

\* the variables of the admission webhook
admVars == <<clusterNodes, admission>>

VARIABLES
  nic,          \* per provider, the addresses of the VM's first interface
  cloudCall     \* the last call of a provider adapter and its result

\* the variables of the provider adapters
provVars == <<nic, cloudCall>>

VARIABLES
  args,         \* the arguments of a function looked at on its own
  returned      \* what the function returned

\* the variables of the functions of the item-list reconciler
itemVars == <<args, returned>>

VARIABLES
  apiObject,    \* the CloudPrivateIPConfig the API server holds
  attempt       \* a write of SyncHandler under retry.RetryOnConflict

\* the variables of a retried write
retryVars == <<apiObject, attempt>>

VARIABLES
  run           \* Run of a controller: its informers, work queue and workers

\* the variables of Run
runVars == <<run>>

\* the variables of the parts added after the four above
auxVars ==
  <<watchVars, electVars, nodeVars, admVars, provVars, itemVars, retryVars,
    runVars>>

vars == <<cpicVars, queueVars, procVars, secretVars, auxVars>>

\* what each part leaves alone
notCPIC == <<queueVars, procVars, secretVars, auxVars>>
notQueue == <<cpicVars, procVars, secretVars, auxVars>>
notProc == <<cpicVars, queueVars, secretVars, auxVars>>
notSecret == <<cpicVars, queueVars, procVars, auxVars>>
notProcNorWatch ==
  <<cpicVars, queueVars, secretVars, electVars, nodeVars, admVars, provVars,
    itemVars,
    retryVars,
    runVars>>
notElect ==
  <<cpicVars, queueVars, procVars, secretVars, watchVars, nodeVars, admVars,
    provVars,
    itemVars,
    retryVars,
    runVars>>
notNode ==
  <<cpicVars, queueVars, procVars, secretVars, watchVars, electVars, admVars,
    provVars,
    itemVars,
    retryVars,
    runVars>>
notAdm ==
  <<cpicVars, queueVars, procVars, secretVars, watchVars, electVars, nodeVars,
    provVars,
    itemVars,
    retryVars,
    runVars>>
notRun ==
  <<cpicVars, queueVars, procVars, secretVars, watchVars, electVars, nodeVars,
    admVars, provVars, itemVars, retryVars>>
notRetry ==
  <<cpicVars, queueVars, procVars, secretVars, watchVars, electVars, nodeVars,
    admVars, provVars, itemVars,
    runVars>>
notItem ==
  <<cpicVars, queueVars, procVars, secretVars, watchVars, electVars, nodeVars,
    admVars, provVars,
    retryVars,
    runVars>>
notProv ==
  <<cpicVars, queueVars, procVars, secretVars, watchVars, electVars, nodeVars,
    admVars,
    itemVars,
    retryVars,
    runVars>>

(* ------------------- the controller scaffold: its data ------------------ *)
\* the workers Run starts (threadiness)
Workers == {"worker1", "worker2"}

\* what can be in the work queue: keys (strings, of the form namespace/name)
\* and an item that is not a string
NotAString == "<not a string>"
Keys == {"keyA", "keyB"}
Items == Keys \cup {NotAString}
NoItem == ""

\* the type assertion obj.(string) of processNextWorkItem
IsString(item) == item \in Keys

\* workqueue.RateLimitingInterface: the queue in order, the items to be
\* processed (dirty), the items being processed, the rate limiter's count
\* of failures per item and the items waiting for their back-off to elapse
EmptyWorkqueue ==
  [queue |-> << >>, dirty |-> {}, processing |-> {},
   failures |-> [i \in Items |-> 0], waiting |-> {}]

\* a worker blocked in Workqueue.Get; the other fields record what it did
\* with the item it took last
IdleWorker ==
  [pc |-> "Get", item |-> NoItem, synced |-> FALSE, err |-> "none",
   requeued |-> FALSE, forgotten |-> FALSE, doneCalls |-> 0]

NoEvents == [adds |-> 0, last |-> NoItem, errors |-> 0]

\* the scaffold before any event
ScaffoldAtRest ==
  /\ Workqueue = EmptyWorkqueue
  /\ worker = [w \in Workers |-> IdleWorker]
  /\ events = NoEvents

(* ------------------------ the process: its data ------------------------- *)
\* the controllers OnStartedLeading runs, each in a goroutine of the
\* WaitGroup
ControllerNames == {"secret", "cloud-private-ip-config", "node"}

\* the buffer of the signal handler's channel: make(chan os.Signal, 2)
SignalBuffer == 2

NoTriggers == [signals |-> 0, rotations |-> 0, leaseLost |-> 0]

\* the process after SetupSignalHandler, when it calls RunOrDie
ProcessAtRest ==
  /\ sigCh = 0
  /\ handler = "first"
  /\ stopCh = 0
  /\ ctx = FALSE
  /\ leader = "acquire"
  /\ controllers = {}
  /\ exit = "running"
  /\ triggers = NoTriggers

(* ----------------------- the file watcher: its data --------------------- *)
\* the values of CloudProvider.intf: the zero value NewCloudProviderClient
\* leaves in the struct, or a provider
Intfs == {"nil", "provider"}

\* the watcher started by NewCloudProviderClient with the CloudProvider c
NewWatcher(intf) ==
  [intf |-> intf, events |-> 0, writes |-> 0, kills |-> 0,
   credentials |-> "initial"]

\* go cloudProviderIntf.watchForSecretChanges() on &AWS{}, &Azure{}, &GCP{}
WatcherAtRest == watcher = NewWatcher("nil")

(* --------------------- the leader election: its data -------------------- *)
\* the replicas of the deployment (podName is the identity of each)
Replicas == {"pod1", "pod2"}

\* the lock when no replica holds it
NoHolder == "none"

\* a replica that calls RunOrDie: the context is not cancelled, the stop
\* channel is open, no controller runs, no worker is inside a sync
NewReplica ==
  [pc |-> "acquire", ctx |-> FALSE, stopCh |-> FALSE, running |-> FALSE,
   syncing |-> FALSE, calls |-> 0]

ElectionAtRest ==
  /\ lease = NoHolder
  /\ replica = [r \in Replicas |-> NewReplica]

(* -------------------- the node controller: its data --------------------- *)
\* the nodes of the cluster (a Node has no namespace)
NodeIds == {[name |-> "node1", namespace |-> ""],
            [name |-> "node2", namespace |-> ""]}

\* the values of the annotation cloud.network.openshift.io/cloud-if-addr:
\* absent, the subnets GetNodeSubnet returns, a value of another client
NoAnnotation == "none"

\* a node that does not exist; others says that the node carries
\* annotations under other keys (without any, GetAnnotations is a nil map)
AbsentNode(id) ==
  [name |-> id.name, namespace |-> id.namespace, exists |-> FALSE,
   resourceVersion |-> 0, annotation |-> NoAnnotation, others |-> FALSE]

\* no key
NoNodeKey == [name |-> "", namespace |-> ""]

IdleNodeSync ==
  [pc |-> "idle", key |-> NoNodeKey, node |-> AbsentNode(NoNodeKey)]

NoNodeHistory ==
  [events |-> 0, errors |-> 0, skipped |-> FALSE,
   delivered |-> [count |-> 0, kind |-> "none", key |-> NoNodeKey],
   writes |-> [id \in NodeIds |-> 0],
   removals |-> [id \in NodeIds |-> 0]]

NodesAtRest ==
  /\ nodes = [id \in NodeIds |-> AbsentNode(id)]
  /\ nodeCache = [id \in NodeIds |-> AbsentNode(id)]
  /\ nodeQueue = {}
  /\ nodeSync = IdleNodeSync
  /\ nodeHist = NoNodeHistory

(* ------------------- the admission webhook: its data -------------------- *)
\* the node names a CloudPrivateIPConfig may name in spec.node
NodeNames == {"node1", "node2"}

\* no error
nil == <<>>

\* the requests the server may receive: an HTTP request whose body is an
\* AdmissionReview (or not) whose request holds an object of a resource
\* (a body without a request of an AdmissionReview is listed once)
AdmissionRequests ==
  {r \in [method : {"POST", "GET"},
          contentType : {"application/json", "text/plain"},
          reviewDecodes : BOOLEAN,
          hasRequest : BOOLEAN,
          resource : {"cloudprivateipconfigs", "pods"},
          operation : {"CREATE", "UPDATE"},
          objectDecodes : BOOLEAN,
          specNode : NodeNames,
          apiError : BOOLEAN] :
     (r.reviewDecodes /\ r.hasRequest)
     \/ (/\ r.resource = "cloudprivateipconfigs" /\ r.operation = "CREATE"
         /\ r.objectDecodes /\ r.specNode = "node1" /\ ~r.apiError
         /\ ~r.hasRequest)}

NoResponse == [code |-> 0, review |-> FALSE, allowed |-> FALSE, message |-> nil]

AdmissionAtRest ==
  /\ clusterNodes = {"node1"}
  /\ admission = [serving |-> TRUE, served |-> 0, denials |-> 0,
                  request |-> CHOOSE r \in AdmissionRequests : TRUE,
                  response |-> NoResponse]

(* ------------------- the provider adapters: their data ------------------ *)
Providers == {"aws", "azure", "gcp"}

\* the IP addresses a CloudPrivateIPConfig may carry
IPs == {"10.0.0.1", "10.0.0.2", "fd00::1"}

\* utilnet.IsIPv6
IsIPv6(ip) == ip = "fd00::1"

\* the texts the cloud APIs hold for an address of an interface: an IP or,
\* for a GCP alias range, a CIDR
AddressTexts == IPs \cup {"10.0.0.1/32", "10.0.0.2/32", "10.0.0.0/30"}

NoIP == "<nil>"

\* net.ParseIP: the IP of a text that is an IP (the spellings of an IPv6
\* give one IP), nil for a CIDR or for any other text
ParseIP(text) ==
  IF text \in IPs THEN text
  ELSE IF text = "FD00::1" THEN "fd00::1"
  ELSE NoIP

\* net.ParseCIDR followed by Contains: the text is a CIDR and the IP lies
\* in its network
ParseCIDRContains(text, ip) ==
  \/ text = "10.0.0.1/32" /\ ip = "10.0.0.1"
  \/ text = "10.0.0.2/32" /\ ip = "10.0.0.2"
  \/ text = "10.0.0.0/30" /\ ip \in {"10.0.0.1", "10.0.0.2"}

\* the results of AssignPrivateIP
AlreadyExistingIPError == "the requested IP is already assigned"

NoCloudCall ==
  [count |-> 0, provider |-> "none", ip |-> NoIP, apiError |-> "none",
   err |-> "nil", mutating |-> FALSE, release |-> FALSE, before |-> {}]

\* the VMs before any call: no secondary address
ProvidersAtRest ==
  /\ nic = [p \in Providers |-> {}]
  /\ cloudCall = NoCloudCall

(* ------------ the functions of the item lists: their data --------------- *)
\* the texts an item may carry as its IP: an IPv4, two spellings of one
\* IPv6, a text that is no IP
IPTexts == {"10.0.0.1", "fd00::1", "FD00::1", "10.0.0.1653"}

\* the items of spec.items and status.items
CloudPrivateIPConfigItems == [node : NodeNames, ip : IPTexts]

\* the lists of at most n elements of a set
ListsUpTo(S, n) == UNION {[1..k -> S] : k \in 0..n}

NoArgs == [items |-> <<>>]

NoResult == [called |-> FALSE]

ItemFunctionsAtRest ==
  /\ args = NoArgs
  /\ returned = NoResult

(* ---------------------- a retried write: its data ---------------------- *)
\* retry.DefaultRetry.Steps
DefaultRetrySteps == 5

\* the writes of SyncHandler: a status write whose closure takes the
\* returned object over, the last status write and the removal of the
\* finalizer, whose closures drop it
Sites == {"interim status", "final status", "finalizer"}

\* the object of a client call that failed: no name, no resourceVersion
EmptyObject == [kind |-> "empty", resourceVersion |-> 0]

\* the CloudPrivateIPConfig at a resourceVersion
ObjectAt(rv) == [kind |-> "object", resourceVersion |-> rv]

NoRequest == [object |-> EmptyObject, status |-> "none"]

\* no write is under way
NoAttempt ==
  [site |-> "none", pc |-> "none", n |-> 0, cpic |-> EmptyObject,
   sent |-> NoRequest, err |-> "none", result |-> "none", requeued |-> FALSE,
   others |-> 0, syncs |-> 0]

RetryAtRest ==
  /\ apiObject = [resourceVersion |-> 0, status |-> "none"]
  /\ attempt = NoAttempt

(* ------------------------------ Run: its data --------------------------- *)
\* the informers whose HasSynced the controller was given (c.Synced)
RunInformers == {"cloudPrivateIPConfigs", "nodes"}

\* Run was not called
NotRunning ==
  [pc |-> "none", synced |-> {}, stopped |-> FALSE, shuttingDown |-> FALSE,
   queue |-> 0, added |-> 0, syncs |-> 0, lateDispatch |-> FALSE,
   worker |-> [w \in Workers |-> "none"]]

RunAtRest == run = NotRunning

\* the parts added after the four above, at rest
AuxAtRest ==
  /\ WatcherAtRest /\ ElectionAtRest /\ NodesAtRest /\ AdmissionAtRest
  /\ ProvidersAtRest /\ ItemFunctionsAtRest /\ RetryAtRest /\ RunAtRest

(* -------------------- the secret controller: its data ------------------- *)
\* the secret the controller is configured with (flags secret-name and
\* secret-namespace) and two others, one with its name, one in its namespace
secretName == "cloud-credentials"
secretNamespace == "openshift-cloud-network-config-controller"
SecretIds ==
  {[name |-> secretName, namespace |-> secretNamespace],
   [name |-> secretName, namespace |-> "kube-system"],
   [name |-> "other", namespace |-> secretNamespace]}

\* a corev1.Secret: data stands for the Data map, two values
NoSecret(id) ==
  [name |-> id.name, namespace |-> id.namespace, exists |-> FALSE,
   resourceVersion |-> 0, data |-> "d0", deletionTimestamp |-> FALSE]

MountedSecret(id) == [NoSecret(id) EXCEPT !.exists = TRUE, !.resourceVersion = 1]

NoSecretEvents == [count |-> 0, kind |-> "none", id |-> "none", qualifies |-> FALSE,
                   qualified |-> FALSE]

\* the secrets exist when the controller starts (the configured one is
\* mounted), nothing is queued
SecretsAtRest ==
  /\ secrets = [id \in SecretIds |-> MountedSecret(id)]
  /\ secretQueue = {}
  /\ cancelCalls = 0
  /\ secretEvents = NoSecretEvents

(* ----------------------------- computeOp ------------------------------ *)
\* computeOp with the update test ahead of the delete test
computeOp_UpdateFirst(o) ==
  IF o.specNode # o.statusNode
  THEN <<o.specNode, o.statusNode>>
  ELSE IF o.deletionTimestamp /\ ContainsFinalizer(o, cloudPrivateIPConfigFinalizer)
  THEN <<NoNode, o.statusNode>>
  ELSE IF o.statusNode = NoNode \/ o.conditions[1].status # ConditionTrue
  THEN <<o.specNode, NoNode>>
  ELSE <<NoNode, NoNode>>

\* computeOp without the NOOP: an object that is assigned is added again
computeOp_NoNoop(o) ==
  IF o.deletionTimestamp /\ ContainsFinalizer(o, cloudPrivateIPConfigFinalizer)
  THEN <<NoNode, o.statusNode>>
  ELSE IF o.specNode # o.statusNode
  THEN <<o.specNode, o.statusNode>>
  ELSE <<o.specNode, NoNode>>

\* <<nodeToAdd, nodeToDel>>
computeOp(o) ==
  IF o.deletionTimestamp /\ ContainsFinalizer(o, cloudPrivateIPConfigFinalizer)
  THEN <<NoNode, o.statusNode>>
  ELSE IF o.specNode # o.statusNode
  THEN <<o.specNode, o.statusNode>>
  ELSE IF o.statusNode = NoNode \/ o.conditions[1].status # ConditionTrue
  THEN <<o.specNode, NoNode>>
  ELSE <<NoNode, NoNode>>

(* -------------------- the statuses SyncHandler writes ------------------ *)
\* ReleaseErrorStatus built without Node, as the error statuses of the
\* assign are
ReleaseErrorStatus_NoNode(cpic) ==
  Status(NoNode,
         <<Condition(ConditionFalse, cloudResponseReasonError,
                     cpic.conditions[1].observedGeneration + 1)>>)

\* release request failed (lines 186-198) / release wait failed (253-265)
ReleaseErrorStatus(cpic) ==
  Status(cpic.statusNode,
         <<Condition(ConditionFalse, cloudResponseReasonError,
                     cpic.conditions[1].observedGeneration + 1)>>)

\* ReleasePendingStatus with an empty Node, as the interim status of an
\* update has
ReleasePendingStatus_ClearNode(cpic) ==
  Status(NoNode,
         <<Condition(ConditionUnknown, cloudResponseReasonPending,
                     cpic.conditions[1].observedGeneration + 1)>>)

\* release request dispatched (lines 211-222)
ReleasePendingStatus(cpic) ==
  Status(cpic.statusNode,
         <<Condition(ConditionUnknown, cloudResponseReasonPending,
                     cpic.conditions[1].observedGeneration + 1)>>)

\* UpdatePendingStatus that takes the observedGeneration over as it is
UpdatePendingStatus_SameGeneration(cpic) ==
  Status(NoNode,
         <<Condition(ConditionUnknown, cloudResponseReasonPending,
                     cpic.conditions[1].observedGeneration)>>)

\* release half of an update done (lines 284-294): status.node is dropped
UpdatePendingStatus(cpic) ==
  Status(NoNode,
         <<Condition(ConditionUnknown, cloudResponseReasonPending,
                     cpic.conditions[1].observedGeneration + 1)>>)

\* lines 316-319
Generation(cpic) ==
  IF Len(cpic.conditions) > 0 THEN cpic.conditions[1].observedGeneration ELSE 0

\* the AlreadyExistingIPError status built from the Pending template
AlreadyAssignedStatus_Pending(cpic, generation) ==
  Status(cpic.specNode,
         <<Condition(ConditionUnknown, cloudResponseReasonPending, generation + 1)>>)

\* AlreadyExistingIPError (lines 327-339)
AlreadyAssignedStatus(cpic, generation) ==
  Status(cpic.specNode,
         <<Condition(ConditionTrue, cloudResponseReasonSuccess, generation + 1)>>)

\* AssignErrorStatus with Node set as in the Pending status
AssignErrorStatus_WithNode(cpic, generation) ==
  Status(cpic.specNode,
         <<Condition(ConditionFalse, cloudResponseReasonError, generation + 1)>>)

\* any other assign error (lines 350-361): no status.node
AssignErrorStatus(cpic, generation) ==
  Status(NoNode,
         <<Condition(ConditionFalse, cloudResponseReasonError, generation + 1)>>)

\* AssignPendingStatus built without Node
AssignPendingStatus_NoNode(cpic, generation) ==
  Status(NoNode,
         <<Condition(ConditionUnknown, cloudResponseReasonPending, generation + 1)>>)

\* assign request dispatched (lines 373-384)
AssignPendingStatus(cpic, generation) ==
  Status(cpic.specNode,
         <<Condition(ConditionUnknown, cloudResponseReasonPending, generation + 1)>>)

\* AssignWaitErrorStatus that keeps status.node, as the release's error
\* status does
AssignWaitErrorStatus_KeepNode(cpic) ==
  Status(cpic.statusNode,
         <<Condition(ConditionFalse, cloudResponseReasonError,
                     cpic.conditions[1].observedGeneration + 1)>>)

\* assign wait failed (lines 423-434): no status.node
AssignWaitErrorStatus(cpic) ==
  Status(NoNode,
         <<Condition(ConditionFalse, cloudResponseReasonError,
                     cpic.conditions[1].observedGeneration + 1)>>)

\* AssignSuccessStatus that takes the observedGeneration over as it is
AssignSuccessStatus_SameGeneration(cpic) ==
  Status(cpic.statusNode,
         <<Condition(ConditionTrue, cloudResponseReasonSuccess,
                     cpic.conditions[1].observedGeneration)>>)

\* assign confirmed (lines 447-458): status.node kept from the interim write
AssignSuccessStatus(cpic) ==
  Status(cpic.statusNode,
         <<Condition(ConditionTrue, cloudResponseReasonSuccess,
                     cpic.conditions[1].observedGeneration + 1)>>)

(* ---------------------------- cluster API ------------------------------ *)
\* a write is accepted when the object exists and the copy that is sent
\* carries the resourceVersion the store holds (optimistic concurrency)
Accepts(store, copy) ==
  store.exists /\ copy.resourceVersion = store.resourceVersion

\* UpdateStatus: the status subresource replaces the status only
updateCloudPrivateIPConfigStatus(store, cpic, status) ==
  [store EXCEPT !.statusNode = status.node,
                !.conditions = status.conditions,
                !.resourceVersion = @ + 1]

\* Update: replaces spec and metadata, never the status; an object that has
\* a deletionTimestamp and no finalizer left is removed from the store
updateCloudPrivateIPConfig(store, cpic) ==
  LET new == [store EXCEPT !.specNode = cpic.specNode,
                           !.finalizers = cpic.finalizers,
                           !.resourceVersion = @ + 1]
  IN IF new.deletionTimestamp /\ new.finalizers = {} THEN Deleted(store) ELSE new

(* ---------------------- informer event handlers ------------------------ *)
\* UpdateFunc that enqueues every update, as AddFunc and DeleteFunc do
UpdateFuncEnqueues_Always(old, new) == TRUE

\* UpdateFunc without the comparison of the two specs
UpdateFuncEnqueues_DeletionOnly(old, new) ==
  new.deletionTimestamp /\ ContainsFinalizer(new, cloudPrivateIPConfigFinalizer)

\* UpdateFunc (lines 80-94): does the update event enqueue the key
UpdateFuncEnqueues(old, new) ==
  \/ new.deletionTimestamp /\ ContainsFinalizer(new, cloudPrivateIPConfigFinalizer)
  \/ old.specNode # new.specNode

\* the event a store transition old -> new raises enqueues the key:
\* DeleteFunc always, UpdateFunc as above
EventEnqueues(old, new) ==
  IF ~new.exists THEN TRUE ELSE UpdateFuncEnqueues(old, new)

(* --------------------------- initial state ----------------------------- *)
NoLocal ==
  [cpic |-> NoObject, nodeToAdd |-> NoNode, nodeToDel |-> NoNode,
   status |-> NoStatus, generation |-> 0, cloudErr |-> FALSE]

NoHistory ==
  [op |-> <<NoNode, NoNode>>,
   rel |-> "none", relNode |-> NoNode, relWait |-> "none",
   asg |-> "none", asgNode |-> NoNode, asgWait |-> "none",
   statusWrites |-> 0, finalizerRemoved |-> FALSE, result |-> "none",
   generation |-> 0]

\* a consumer has created the object (AddFunc has enqueued the key), the
\* cloud does not hold the IP anywhere
Init ==
  /\ \E n \in Nodes : obj = NewObject(n)
  /\ cloud = {}
  /\ queued = TRUE
  /\ pc = "idle"
  /\ local = NoLocal
  /\ h = NoHistory
  /\ env = [errors |-> 0, crashes |-> 0, ops |-> 0]
  /\ ScaffoldAtRest
  /\ ProcessAtRest
  /\ AuxAtRest
  /\ SecretsAtRest

(* ------------------------- ends of SyncHandler ------------------------- *)
\* SyncHandler returns to processNextWorkItem: on an error the key is
\* re-added (AddRateLimited), on success it is forgotten; ev: an event
\* raised by the last write has enqueued the key
Return(res, ev, hist) ==
  /\ pc' = "idle"
  /\ local' = NoLocal
  /\ h' = [hist EXCEPT !.result = res]
  /\ queued' = (queued \/ ev \/ res = "err")

\* retry.RetryOnConflict around updateCloudPrivateIPConfigStatus with
\* local.status: an accepted write returns the stored object, with which the
\* sync goes on at `next`; a refused write ends the sync with an error
UpdateStatusStep(next) ==
  /\ IF Accepts(obj, local.cpic)
     THEN LET new == updateCloudPrivateIPConfigStatus(obj, local.cpic, local.status)
              hist == [h EXCEPT !.statusWrites = @ + 1]
          IN /\ obj' = new
             /\ IF next \in {"return nil", "return err"}
                THEN Return(IF next = "return nil" THEN "ok" ELSE "err",
                            EventEnqueues(obj, new), hist)
                ELSE /\ pc' = next
                     /\ local' = [local EXCEPT !.cpic = new]
                     /\ h' = hist
                     /\ queued' = (queued \/ EventEnqueues(obj, new))
     ELSE /\ obj' = obj
          /\ Return("err", FALSE, h)
  /\ UNCHANGED <<cloud, env, notCPIC>>

(* ------------------------------ SyncHandler ---------------------------- *)
\* processNextWorkItem takes the key; lines 146-172: read the object from
\* the lister, computeOp, dequeue on NOOP
SyncStart ==
  /\ pc = "idle"
  /\ queued
  /\ LET op == IF obj.exists THEN computeOp(obj) ELSE <<NoNode, NoNode>>
         hist == [NoHistory EXCEPT !.op = op, !.result = "running",
                                   !.generation = Generation(obj)]
     IN IF ~obj.exists \/ op = <<NoNode, NoNode>>
        THEN /\ pc' = "idle"
             /\ local' = NoLocal
             /\ h' = [hist EXCEPT !.result = "ok"]
        ELSE /\ pc' = IF op[2] # NoNode THEN "ReleasePrivateIP" ELSE "AssignPrivateIP"
             /\ local' = [NoLocal EXCEPT !.cpic = obj, !.nodeToAdd = op[1],
                                         !.nodeToDel = op[2]]
             /\ h' = hist
  /\ queued' = FALSE
  /\ UNCHANGED <<obj, cloud, env, notCPIC>>

\* lines 184-222: the release request; the cloud may apply a dispatched
\* request at once or only by the time the wait confirms it
ReleasePrivateIP ==
  /\ pc = "ReleasePrivateIP"
  /\ \/ /\ env.errors < MaxCloudErrors
        /\ env' = [env EXCEPT !.errors = @ + 1]
        /\ cloud' = cloud
        /\ local' = [local EXCEPT !.status = ReleaseErrorStatus(local.cpic)]
        /\ h' = [h EXCEPT !.rel = "err", !.relNode = local.nodeToDel]
        /\ pc' = "ReleaseErrStatus"
     \/ /\ \E applied \in BOOLEAN :
             cloud' = IF applied THEN cloud \ {local.nodeToDel} ELSE cloud
        /\ local' = [local EXCEPT !.status = ReleasePendingStatus(local.cpic)]
        /\ h' = [h EXCEPT !.rel = "ok", !.relNode = local.nodeToDel]
        /\ pc' = "ReleasePendingStatus"
        /\ env' = env
  /\ UNCHANGED <<obj, queued, notCPIC>>

\* lines 201-207
ReleaseErrStatus == pc = "ReleaseErrStatus" /\ UpdateStatusStep("return err")

\* lines 223-228
ReleasePendingStatusWrite ==
  pc = "ReleasePendingStatus" /\ UpdateStatusStep("WaitForRelease")

\* AfterReleaseWait without the cloudErr == nil test of line 241
AfterReleaseWait_IgnoreWaitError(cpic, cloudErr, nodeToAdd) ==
  IF /\ cpic.deletionTimestamp
     /\ ContainsFinalizer(cpic, cloudPrivateIPConfigFinalizer)
  THEN "RemoveFinalizer"
  ELSE IF cloudErr THEN "ReleaseWaitErrStatus"
  ELSE IF nodeToAdd # NoNode THEN "UpdatePendingStatus"
  ELSE "FinalStatus"

\* AfterReleaseWait with the nodeToAdd test ahead of the cloudErr test of
\* line 251
AfterReleaseWait_AssignFirst(cpic, cloudErr, nodeToAdd) ==
  IF /\ cpic.deletionTimestamp
     /\ ContainsFinalizer(cpic, cloudPrivateIPConfigFinalizer)
     /\ ~cloudErr
  THEN "RemoveFinalizer"
  ELSE IF nodeToAdd # NoNode THEN "UpdatePendingStatus"
  ELSE IF cloudErr THEN "ReleaseWaitErrStatus"
  ELSE "FinalStatus"

\* lines 234-301: what follows the wait for the release
AfterReleaseWait(cpic, cloudErr, nodeToAdd) ==
  IF /\ cpic.deletionTimestamp
     /\ ContainsFinalizer(cpic, cloudPrivateIPConfigFinalizer)
     /\ ~cloudErr
  THEN "RemoveFinalizer"
  ELSE IF cloudErr THEN "ReleaseWaitErrStatus"
  ELSE IF nodeToAdd # NoNode THEN "UpdatePendingStatus"
  ELSE "FinalStatus"

\* line 230: WaitForResponse for the release
WaitForRelease ==
  /\ pc = "WaitForRelease"
  /\ \E cloudErr \in BOOLEAN :
       /\ IF cloudErr
          THEN /\ env.errors < MaxCloudErrors
               /\ env' = [env EXCEPT !.errors = @ + 1]
               /\ cloud' = cloud
          ELSE /\ env' = env
               /\ cloud' = cloud \ {local.nodeToDel}
       /\ LET next == AfterReleaseWait(local.cpic, cloudErr, local.nodeToAdd)
          IN /\ pc' = next
             /\ local' = [local EXCEPT
                  !.cloudErr = cloudErr,
                  !.cpic = IF next = "RemoveFinalizer"
                           THEN RemoveFinalizer(@, cloudPrivateIPConfigFinalizer)
                           ELSE @,
                  !.status = IF next = "ReleaseWaitErrStatus"
                             THEN ReleaseErrorStatus(local.cpic)
                             ELSE IF next = "UpdatePendingStatus"
                             THEN UpdatePendingStatus(local.cpic)
                             ELSE @]
       /\ h' = [h EXCEPT !.relWait = IF cloudErr THEN "err" ELSE "ok"]
  /\ UNCHANGED <<obj, queued, notCPIC>>

\* lines 242-247: the finalizer is removed and the object persisted
RemoveFinalizerWrite ==
  /\ pc = "RemoveFinalizer"
  /\ IF Accepts(obj, local.cpic)
     THEN LET new == updateCloudPrivateIPConfig(obj, local.cpic)
          IN /\ obj' = new
             /\ Return("ok", EventEnqueues(obj, new),
                       [h EXCEPT !.finalizerRemoved = TRUE])
     ELSE /\ obj' = obj
          /\ Return("err", FALSE, h)
  /\ UNCHANGED <<cloud, env, notCPIC>>

\* lines 268-274
ReleaseWaitErrStatus ==
  pc = "ReleaseWaitErrStatus" /\ UpdateStatusStep("return err")

\* lines 295-300
UpdatePendingStatusWrite ==
  pc = "UpdatePendingStatus" /\ UpdateStatusStep("AssignPrivateIP")

\* the answers AssignPrivateIP can give for a node, given the cloud
\* (CloudProviderIntf): AlreadyExistingIPError when the node's NIC holds
\* the IP already
AssignAnswers(node, held) ==
  IF node \in held THEN {"already", "err"} ELSE {"ok", "err"}

\* lines 316-384: the assign request
AssignPrivateIP ==
  /\ pc = "AssignPrivateIP"
  /\ LET generation == Generation(local.cpic)
     IN \E answer \in AssignAnswers(local.nodeToAdd, cloud) :
          /\ h' = [h EXCEPT !.asg = answer, !.asgNode = local.nodeToAdd]
          /\ CASE answer = "already" ->
                    /\ env' = env
                    /\ cloud' = cloud
                    /\ local' = [local EXCEPT
                         !.generation = generation,
                         !.status = AlreadyAssignedStatus(local.cpic, generation)]
                    /\ pc' = "AlreadyAssignedStatus"
               [] answer = "err" ->
                    /\ env.errors < MaxCloudErrors
                    /\ env' = [env EXCEPT !.errors = @ + 1]
                    /\ cloud' = cloud
                    /\ local' = [local EXCEPT
                         !.generation = generation,
                         !.status = AssignErrorStatus(local.cpic, generation)]
                    /\ pc' = "AssignErrStatus"
               [] answer = "ok" ->
                    /\ env' = env
                    /\ \E applied \in BOOLEAN :
                         cloud' = IF applied THEN cloud \cup {local.nodeToAdd} ELSE cloud
                    /\ local' = [local EXCEPT
                         !.generation = generation,
                         !.status = AssignPendingStatus(local.cpic, generation),
                         !.cpic = AddFinalizer(@, cloudPrivateIPConfigFinalizer)]
                    /\ pc' = IF ContainsFinalizer(local.cpic, cloudPrivateIPConfigFinalizer)
                             THEN "AssignPendingStatus" ELSE "AddFinalizer"
  /\ UNCHANGED <<obj, queued, notCPIC>>

\* lines 340-346
AlreadyAssignedStatusWrite ==
  pc = "AlreadyAssignedStatus" /\ UpdateStatusStep("return nil")

\* lines 362-368
AssignErrStatus == pc = "AssignErrStatus" /\ UpdateStatusStep("return err")

\* lines 387-399: the finalizer is added and the object persisted
AddFinalizerWrite ==
  /\ pc = "AddFinalizer"
  /\ IF Accepts(obj, local.cpic)
     THEN LET new == updateCloudPrivateIPConfig(obj, local.cpic)
          IN /\ obj' = new
             /\ pc' = "AssignPendingStatus"
             /\ local' = [local EXCEPT !.cpic = new]
             /\ h' = h
             /\ queued' = (queued \/ EventEnqueues(obj, new))
     ELSE /\ obj' = obj
          /\ Return("err", FALSE, h)
  /\ UNCHANGED <<cloud, env, notCPIC>>

\* lines 407-412
AssignPendingStatusWrite ==
  pc = "AssignPendingStatus" /\ UpdateStatusStep("WaitForAssign")

\* lines 420-458: WaitForResponse for the assign
WaitForAssign ==
  /\ pc = "WaitForAssign"
  /\ \E cloudErr \in BOOLEAN :
       /\ IF cloudErr
          THEN /\ env.errors < MaxCloudErrors
               /\ env' = [env EXCEPT !.errors = @ + 1]
               /\ cloud' = cloud
               /\ pc' = "AssignWaitErrStatus"
          ELSE /\ env' = env
               /\ cloud' = cloud \cup {local.nodeToAdd}
               /\ pc' = "FinalStatus"
       /\ local' = [local EXCEPT
            !.cloudErr = cloudErr,
            !.status = IF cloudErr THEN AssignWaitErrorStatus(local.cpic)
                       ELSE AssignSuccessStatus(local.cpic)]
       /\ h' = [h EXCEPT !.asgWait = IF cloudErr THEN "err" ELSE "ok"]
  /\ UNCHANGED <<obj, queued, notCPIC>>

\* lines 437-443
AssignWaitErrStatus ==
  pc = "AssignWaitErrStatus" /\ UpdateStatusStep("return err")

\* lines 461-464
FinalStatusWrite == pc = "FinalStatus" /\ UpdateStatusStep("return nil")

(* ------------------------------ environment ---------------------------- *)
\* the consumer patches spec.node (UpdateFunc enqueues: the spec changed)
ConsumerSetNode ==
  /\ obj.exists
  /\ ~obj.deletionTimestamp
  /\ env.ops < MaxConsumerOps
  /\ \E n \in Nodes \ {obj.specNode} :
       obj' = [obj EXCEPT !.specNode = n, !.resourceVersion = @ + 1]
  /\ queued' = (queued \/ EventEnqueues(obj, obj'))
  /\ env' = [env EXCEPT !.ops = @ + 1]
  /\ UNCHANGED <<cloud, pc, local, h, notCPIC>>

\* the consumer deletes the object: with a finalizer the API only sets the
\* deletionTimestamp, without one the object is removed
ConsumerDelete ==
  /\ obj.exists
  /\ ~obj.deletionTimestamp
  /\ env.ops < MaxConsumerOps
  /\ obj' = IF obj.finalizers = {} THEN Deleted(obj)
            ELSE [obj EXCEPT !.deletionTimestamp = TRUE, !.resourceVersion = @ + 1]
  /\ queued' = (queued \/ EventEnqueues(obj, obj'))
  /\ env' = [env EXCEPT !.ops = @ + 1]
  /\ UNCHANGED <<cloud, pc, local, h, notCPIC>>

\* the controller dies inside a sync and a new leader starts: its locals are
\* lost, the informer lists the objects and AddFunc enqueues each
Crash ==
  /\ pc # "idle"
  /\ env.crashes < MaxCrashes
  /\ env' = [env EXCEPT !.crashes = @ + 1]
  /\ pc' = "idle"
  /\ local' = NoLocal
  /\ h' = [h EXCEPT !.result = "crashed"]
  /\ queued' = obj.exists
  /\ UNCHANGED <<obj, cloud, notCPIC>>

SyncStep ==
  \/ SyncStart
  \/ ReleasePrivateIP
  \/ ReleaseErrStatus
  \/ ReleasePendingStatusWrite
  \/ WaitForRelease
  \/ RemoveFinalizerWrite
  \/ ReleaseWaitErrStatus
  \/ UpdatePendingStatusWrite
  \/ AssignPrivateIP
  \/ AlreadyAssignedStatusWrite
  \/ AssignErrStatus
  \/ AddFinalizerWrite
  \/ AssignPendingStatusWrite
  \/ WaitForAssign
  \/ AssignWaitErrStatus
  \/ FinalStatusWrite

Next ==
  \/ SyncStep
  \/ ConsumerSetNode
  \/ ConsumerDelete
  \/ Crash

Spec == Init /\ [][Next]_vars

\* the worker runs whenever the queue holds the key and never stops inside
\* a sync (runWorker loops on processNextWorkItem); errors, crashes and
\* consumer writes are bounded, so the cloud eventually succeeds and
\* spec.node eventually stops changing
LiveSpec == Spec /\ WF_vars(SyncStep)

(* ------------------ the controller scaffold: work queue ----------------- *)
\* the reconciler's variables while the scaffold is looked at on its own
CPICAtRest ==
  /\ obj = NoObject
  /\ cloud = {}
  /\ queued = FALSE
  /\ pc = "idle"
  /\ local = NoLocal
  /\ h = NoHistory
  /\ env = [errors |-> 0, crashes |-> 0, ops |-> 0]

\* Workqueue.Add: an item that is dirty is there already; an item that is
\* being processed is only marked dirty (Done will queue it)
Add(q, item) ==
  IF item \in q.dirty THEN q
  ELSE IF item \in q.processing THEN [q EXCEPT !.dirty = @ \cup {item}]
  ELSE [q EXCEPT !.dirty = @ \cup {item}, !.queue = Append(@, item)]

\* Workqueue.Get: takes the head, which is then processing and not dirty
Get(q) ==
  [q EXCEPT !.queue = Tail(@),
            !.processing = @ \cup {Head(q.queue)},
            !.dirty = @ \ {Head(q.queue)}]

\* Workqueue.Done: the item is not processing any more; when it was added
\* meanwhile it goes to the queue
Done(q, item) ==
  IF item \in q.dirty /\ item \in q.processing
  THEN [q EXCEPT !.processing = @ \ {item}, !.queue = Append(@, item)]
  ELSE [q EXCEPT !.processing = @ \ {item}]

\* Workqueue.Forget: the rate limiter stops tracking the item
Forget(q, item) == [q EXCEPT !.failures[item] = 0]

\* Workqueue.AddRateLimited: the item is added when the back-off the rate
\* limiter computes from its failures has elapsed
AddRateLimited(q, item) ==
  [q EXCEPT !.failures[item] = @ + 1, !.waiting = @ \cup {item}]

\* processNextWorkItem without the defer of line 273: Done is called at once
OnEntry_DoneNotDeferred(q, item) == Done(q, item)

\* line 273: Done is deferred, nothing happens to the queue on entry
OnEntry(q, item) == q

\* lines 291-298 with Forget on both paths
AfterSync_ForgetAlways(q, key, failed) ==
  IF failed THEN Forget(AddRateLimited(q, key), key) ELSE Forget(q, key)

\* lines 291-298: after syncHandler
AfterSync(q, key, failed) ==
  IF failed THEN AddRateLimited(q, key) ELSE Forget(q, key)

\* an event handler adds an item (enqueueNode: Workqueue.Add)
Enqueue ==
  /\ events.adds < MaxEnqueues
  /\ \E item \in Items :
       /\ Workqueue' = Add(Workqueue, item)
       /\ events' = [events EXCEPT !.adds = @ + 1, !.last = item]
  /\ UNCHANGED <<worker, notQueue>>

\* the back-off of an item has elapsed: the delaying queue adds it
BackoffElapsed ==
  /\ \E item \in Workqueue.waiting :
       Workqueue' = Add([Workqueue EXCEPT !.waiting = @ \ {item}], item)
  /\ UNCHANGED <<worker, events, notQueue>>

\* lines 259-273: a worker takes the next item
WorkerGet(w) ==
  /\ worker[w].pc = "Get"
  /\ Workqueue.queue # << >>
  /\ LET item == Head(Workqueue.queue)
     IN /\ Workqueue' = OnEntry(Get(Workqueue), item)
        /\ worker' = [worker EXCEPT ![w] = [IdleWorker EXCEPT !.pc = "check",
                                                               !.item = item]]
  /\ UNCHANGED <<events, notQueue>>

\* lines 281-291: an item that is not a string is forgotten, a key is
\* passed to syncHandler
WorkerCheck(w) ==
  /\ worker[w].pc = "check"
  /\ IF IsString(worker[w].item)
     THEN /\ worker' = [worker EXCEPT ![w].pc = "syncHandler", ![w].synced = TRUE]
          /\ Workqueue' = Workqueue
     ELSE /\ worker' = [worker EXCEPT ![w].pc = "Done", ![w].forgotten = TRUE]
          /\ Workqueue' = Forget(Workqueue, worker[w].item)
  /\ UNCHANGED <<events, notQueue>>

\* lines 291-300: syncHandler returns
WorkerSyncReturns(w) ==
  /\ worker[w].pc = "syncHandler"
  /\ \E failed \in BOOLEAN :
       /\ failed => events.errors < MaxSyncErrors
       /\ events' = [events EXCEPT !.errors = IF failed THEN @ + 1 ELSE @]
       /\ Workqueue' = AfterSync(Workqueue, worker[w].item, failed)
       /\ worker' = [worker EXCEPT
            ![w].pc = "Done",
            ![w].err = IF failed THEN "err" ELSE "nil",
            ![w].requeued = /\ worker[w].item \in Workqueue'.waiting
                            /\ Workqueue'.failures[worker[w].item] >
                                 Workqueue.failures[worker[w].item],
            ![w].forgotten = Workqueue'.failures[worker[w].item] = 0]
  /\ UNCHANGED notQueue

\* line 273: the deferred Done, then runWorker calls processNextWorkItem again
WorkerDone(w) ==
  /\ worker[w].pc = "Done"
  /\ Workqueue' = Done(Workqueue, worker[w].item)
  /\ worker' = [worker EXCEPT ![w].pc = "Get", ![w].doneCalls = @ + 1]
  /\ UNCHANGED <<events, notQueue>>

\* processNextWorkItem, step by step
processNextWorkItem(w) ==
  \/ WorkerGet(w)
  \/ WorkerCheck(w)
  \/ WorkerSyncReturns(w)
  \/ WorkerDone(w)

QueueInit == ScaffoldAtRest /\ CPICAtRest /\ ProcessAtRest /\ SecretsAtRest /\ AuxAtRest

QueueNext ==
  \/ Enqueue
  \/ BackoffElapsed
  \/ \E w \in Workers : processNextWorkItem(w)

\* Run with two workers on one work queue
QueueSpec == QueueInit /\ [][QueueNext]_vars

(* ------------- the process: signals, leader election, main ------------- *)
\* a signal is sent to the process: signal.Notify puts it in the channel
\* unless the channel is full
Notify(pending) == IF pending < SignalBuffer THEN pending + 1 ELSE pending

\* SIGINT or SIGTERM from outside the process
ExternalSignal ==
  /\ exit = "running"
  /\ triggers.signals < MaxSignals
  /\ sigCh' = Notify(sigCh)
  /\ triggers' = [triggers EXCEPT !.signals = @ + 1]
  /\ UNCHANGED <<handler, stopCh, ctx, leader, controllers, exit, notProc>>

\* SetupSignalHandler: the first signal closes the stop channel and cancels
\* the global context
HandlerFirstSignal ==
  /\ exit = "running"
  /\ handler = "first"
  /\ sigCh > 0
  /\ sigCh' = sigCh - 1
  /\ stopCh' = stopCh + 1
  /\ ctx' = TRUE
  /\ handler' = "second"
  /\ UNCHANGED <<leader, controllers, exit, triggers, notProc>>

\* SetupSignalHandler: the second signal exits the process with code 1
HandlerSecondSignal ==
  /\ exit = "running"
  /\ handler = "second"
  /\ sigCh > 0
  /\ sigCh' = sigCh - 1
  /\ handler' = "exited"
  /\ exit' = "exit 1"
  /\ UNCHANGED <<stopCh, ctx, leader, controllers, triggers, notProc>>

\* RunOrDie acquires the lease and runs OnStartedLeading, which starts the
\* three controllers; with a cancelled context it returns and main ends
AcquireLease ==
  /\ exit = "running"
  /\ leader = "acquire"
  /\ IF ctx
     THEN /\ leader' = "returned"
          /\ exit' = "exit 0"
          /\ controllers' = controllers
     ELSE /\ leader' = "leading"
          /\ exit' = exit
          /\ controllers' = ControllerNames
  /\ UNCHANGED <<sigCh, handler, stopCh, ctx, triggers, notProc>>

\* the leader fails to renew the lease: RunOrDie calls OnStoppedLeading
LoseLease ==
  /\ exit = "running"
  /\ leader = "leading"
  /\ ~ctx
  /\ triggers.leaseLost = 0
  /\ leader' = "OnStoppedLeading"
  /\ triggers' = [triggers EXCEPT !.leaseLost = @ + 1]
  /\ UNCHANGED <<sigCh, handler, stopCh, ctx, controllers, exit, notProc>>

\* the global context is cancelled: the leader election loop ends and
\* RunOrDie calls OnStoppedLeading
LeaderCancelled ==
  /\ exit = "running"
  /\ leader = "leading"
  /\ ctx
  /\ leader' = "OnStoppedLeading"
  /\ UNCHANGED <<sigCh, handler, stopCh, ctx, controllers, exit, triggers, notProc>>

\* OnStoppedLeading: signals.ShutDown sends SIGTERM to the process itself,
\* then wg.Wait
OnStoppedLeading ==
  /\ exit = "running"
  /\ leader = "OnStoppedLeading"
  /\ sigCh' = Notify(sigCh)
  /\ leader' = "wg.Wait"
  /\ UNCHANGED <<handler, stopCh, ctx, controllers, exit, triggers, notProc>>

\* wg.Wait returns when every controller's Run has returned; RunOrDie and
\* main return
WaitGroupDone ==
  /\ exit = "running"
  /\ leader = "wg.Wait"
  /\ controllers = {}
  /\ leader' = "returned"
  /\ exit' = "exit 0"
  /\ UNCHANGED <<sigCh, handler, stopCh, ctx, controllers, triggers, notProc>>

\* Run of a controller returns once the stop channel is closed
ControllerStops ==
  /\ exit = "running"
  /\ stopCh > 0
  /\ \E name \in controllers : controllers' = controllers \ {name}
  /\ UNCHANGED <<sigCh, handler, stopCh, ctx, leader, exit, triggers, notProc>>

\* the secret controller sees the credentials rotate: shutdown calls the
\* global cancel function
CredentialRotation ==
  /\ exit = "running"
  /\ "secret" \in controllers
  /\ triggers.rotations = 0
  /\ ctx' = TRUE
  /\ triggers' = [triggers EXCEPT !.rotations = @ + 1]
  /\ UNCHANGED <<sigCh, handler, stopCh, leader, controllers, exit, notProc>>

ProcessInit == ProcessAtRest /\ CPICAtRest /\ ScaffoldAtRest /\ SecretsAtRest /\ AuxAtRest

ProcessNext ==
  \/ ExternalSignal
  \/ HandlerFirstSignal
  \/ HandlerSecondSignal
  \/ AcquireLease
  \/ LoseLease
  \/ LeaderCancelled
  \/ OnStoppedLeading
  \/ WaitGroupDone
  \/ ControllerStops
  \/ CredentialRotation

\* main
ProcessSpec == ProcessInit /\ [][ProcessNext]_vars

(* ------------------- the cloud provider's file watcher ------------------ *)
\* cloudprovider.go lines 97-105: the handler of a WRITE event calls
\* c.intf.initCredentials(); a nil intf panics, an error sends SIGTERM to
\* the process, no error leaves the process running with the credentials
\* read again
OnWrite(intf, err) ==
  IF intf = "nil" THEN "panic"
  ELSE IF err THEN "SIGTERM"
  ELSE "reloaded"

\* lines 91-111: the watcher's goroutine receives an event of the
\* credentials directory; initCredentials fails or not
WatcherEvent ==
  /\ exit = "running"
  /\ watcher.events < MaxWatchEvents
  /\ \E op \in {"Write", "Chmod"}, err \in BOOLEAN :
       LET outcome == IF op = "Write" THEN OnWrite(watcher.intf, err)
                      ELSE "ignored"
       IN /\ watcher' = [watcher EXCEPT
                           !.events = @ + 1,
                           !.writes = IF op = "Write" THEN @ + 1 ELSE @,
                           !.kills = IF outcome = "SIGTERM" THEN @ + 1 ELSE @,
                           !.credentials =
                              IF outcome = "reloaded" THEN "reloaded" ELSE @]
          /\ sigCh' = IF outcome = "SIGTERM" THEN Notify(sigCh) ELSE sigCh
          /\ exit' = IF outcome = "panic" THEN "exit 2" ELSE exit
  /\ UNCHANGED <<handler, stopCh, ctx, leader, controllers, triggers,
                 notProcNorWatch>>

\* the process is started with a CloudProvider as NewCloudProviderClient
\* builds it, or with one whose intf is a provider
WatchInit ==
  /\ \E intf \in Intfs : watcher = NewWatcher(intf)
  /\ ProcessAtRest /\ CPICAtRest /\ ScaffoldAtRest /\ SecretsAtRest
  /\ ElectionAtRest /\ NodesAtRest /\ AdmissionAtRest /\ ProvidersAtRest /\ ItemFunctionsAtRest /\ RetryAtRest /\ RunAtRest

WatchNext == WatcherEvent \/ ProcessNext

\* the process with the file watcher of its cloud provider
WatchSpec == WatchInit /\ [][WatchNext]_vars

(* ------------------ leader election among the replicas ----------------- *)
\* RunOrDie acquires the lock when no replica holds it; OnStartedLeading
\* builds the controllers and starts their Run
AcquireLock(r) ==
  /\ replica[r].pc = "acquire"
  /\ ~replica[r].ctx
  /\ lease = NoHolder
  /\ lease' = r
  /\ replica' = [replica EXCEPT ![r].pc = "leading", ![r].running = TRUE]
  /\ UNCHANGED notElect

\* processNextWorkItem of a running controller takes a key and calls
\* SyncHandler
ReplicaSyncStarts(r) ==
  /\ replica[r].pc # "exited"
  /\ replica[r].running
  /\ ~replica[r].syncing
  /\ replica' = [replica EXCEPT ![r].syncing = TRUE]
  /\ UNCHANGED <<lease, notElect>>

\* a cloud call or a write of a SyncHandler that is running
ReplicaCloudCallOrWrite(r) ==
  /\ replica[r].pc # "exited"
  /\ replica[r].syncing
  /\ replica[r].calls < MaxReplicaCalls
  /\ replica' = [replica EXCEPT ![r].calls = @ + 1]
  /\ UNCHANGED <<lease, notElect>>

\* SyncHandler returns
ReplicaSyncEnds(r) ==
  /\ replica[r].pc # "exited"
  /\ replica[r].syncing
  /\ replica' = [replica EXCEPT ![r].syncing = FALSE]
  /\ UNCHANGED <<lease, notElect>>

\* the secret controller of the leader calls cancelFunc
ReplicaRotation(r) ==
  /\ replica[r].pc = "leading"
  /\ ~replica[r].ctx
  /\ replica' = [replica EXCEPT ![r].ctx = TRUE]
  /\ UNCHANGED <<lease, notElect>>

\* the context of the leader is cancelled: with ReleaseOnCancel the leader
\* election releases the lock, then calls OnStoppedLeading
ReleaseOnCancel(r) ==
  /\ replica[r].pc = "leading"
  /\ replica[r].ctx
  /\ lease' = IF lease = r THEN NoHolder ELSE lease
  /\ replica' = [replica EXCEPT ![r].pc = "OnStoppedLeading"]
  /\ UNCHANGED notElect

\* the leader does not renew the lock within RenewDeadline: the leader
\* election calls OnStoppedLeading; the lock stays with the replica until
\* LeaseDuration has passed
RenewDeadlineExceeded(r) ==
  /\ replica[r].pc = "leading"
  /\ ~replica[r].ctx
  /\ replica' = [replica EXCEPT ![r].pc = "OnStoppedLeading"]
  /\ UNCHANGED <<lease, notElect>>

\* LeaseDuration has passed since the holder, which leads no more, renewed
\* the lock
LeaseDurationPassed ==
  /\ lease # NoHolder
  /\ replica[lease].pc # "leading"
  /\ lease' = NoHolder
  /\ UNCHANGED <<replica, notElect>>

\* OnStoppedLeading: signals.ShutDown sends SIGTERM, the signal handler
\* closes the stop channel and cancels the context; then wg.Wait
ReplicaOnStoppedLeading(r) ==
  /\ replica[r].pc = "OnStoppedLeading"
  /\ replica' = [replica EXCEPT ![r].pc = "wg.Wait", ![r].stopCh = TRUE,
                                ![r].ctx = TRUE]
  /\ UNCHANGED <<lease, notElect>>

\* Run of the controllers returns once the stop channel is closed, and
\* shuts the work queue down: no worker takes another key, a SyncHandler
\* that is running goes on
ReplicaRunReturns(r) ==
  /\ replica[r].pc # "exited"
  /\ replica[r].stopCh
  /\ replica[r].running
  /\ replica' = [replica EXCEPT ![r].running = FALSE]
  /\ UNCHANGED <<lease, notElect>>

\* wg.Wait returns, RunOrDie and main return: the process ends, and with it
\* every SyncHandler that is running
ReplicaMainReturns(r) ==
  /\ replica[r].pc = "wg.Wait"
  /\ ~replica[r].running
  /\ replica' = [replica EXCEPT ![r].pc = "exited", ![r].syncing = FALSE]
  /\ UNCHANGED <<lease, notElect>>

ElectionInit ==
  /\ ElectionAtRest /\ WatcherAtRest /\ NodesAtRest /\ AdmissionAtRest
  /\ ProcessAtRest /\ CPICAtRest /\ ScaffoldAtRest /\ SecretsAtRest /\ ProvidersAtRest /\ ItemFunctionsAtRest /\ RetryAtRest /\ RunAtRest

ElectionNext ==
  \/ LeaseDurationPassed
  \/ \E r \in Replicas :
       \/ AcquireLock(r)
       \/ ReplicaSyncStarts(r)
       \/ ReplicaCloudCallOrWrite(r)
       \/ ReplicaSyncEnds(r)
       \/ ReplicaRotation(r)
       \/ ReleaseOnCancel(r)
       \/ RenewDeadlineExceeded(r)
       \/ ReplicaOnStoppedLeading(r)
       \/ ReplicaRunReturns(r)
       \/ ReplicaMainReturns(r)

\* the replicas of the deployment, each in main
ElectionSpec == ElectionInit /\ [][ElectionNext]_vars

(* --------------------------- secret controller -------------------------- *)
\* the secret the controller is configured for
ConfiguredSecret == [name |-> secretName, namespace |-> secretNamespace]

\* the key of a secret in the work queue (namespace/name)
SecretKey(secret) == [name |-> secret.name, namespace |-> secret.namespace]

\* secretFilter that compares the name only
secretFilter_NameOnly(secret) == secret.name = secretName

\* lines 58-68: FilterFunc of the event handler
secretFilter(secret) ==
  secret.name = secretName /\ secret.namespace = secretNamespace

\* lines 76-90: UpdateFunc enqueues the new object
SecretUpdateEnqueues(oldSecret, newSecret) ==
  /\ ~(\/ oldSecret.resourceVersion = newSecret.resourceVersion
       \/ newSecret.deletionTimestamp)
  /\ oldSecret.data # newSecret.data

\* Enqueue of the controller scaffold: the object's key is added to the
\* work queue
controllerEnqueue(queue, secret) == queue \cup {SecretKey(secret)}

\* the event is one of those the credential rotation consists of: the
\* configured secret is deleted, or updated with changed data, a different
\* resourceVersion and no deletionTimestamp
Rotation(kind, oldSecret, newSecret) ==
  /\ SecretKey(oldSecret) = ConfiguredSecret
  /\ \/ kind = "delete"
     \/ /\ kind = "update"
        /\ oldSecret.data # newSecret.data
        /\ oldSecret.resourceVersion # newSecret.resourceVersion
        /\ ~newSecret.deletionTimestamp

Delivered(kind, oldSecret, newSecret) ==
  [count |-> secretEvents.count + 1, kind |-> kind, id |-> SecretKey(oldSecret),
   qualifies |-> Rotation(kind, oldSecret, newSecret),
   qualified |-> secretEvents.qualified \/ Rotation(kind, oldSecret, newSecret)]

\* an add event (the informer's first list, or a secret created again):
\* the handler has no AddFunc
SecretAdded ==
  /\ secretEvents.count < MaxSecretEvents
  /\ \E id \in SecretIds :
       LET old == secrets[id]
           new == IF old.exists THEN old
                  ELSE [old EXCEPT !.exists = TRUE, !.resourceVersion = @ + 1]
       IN /\ secrets' = [secrets EXCEPT ![id] = new]
          /\ secretEvents' = Delivered("add", old, new)
  /\ UNCHANGED <<secretQueue, cancelCalls, notSecret>>

\* an update event: the data changes, only the metadata changes, or the
\* secret is marked for deletion
SecretUpdated ==
  /\ secretEvents.count < MaxSecretEvents
  /\ \E id \in SecretIds, change \in {"data", "metadata", "deletionTimestamp"} :
       LET old == secrets[id]
           new == [old EXCEPT
                     !.resourceVersion = @ + 1,
                     !.data = IF change # "data" THEN @
                              ELSE IF @ = "d0" THEN "d1" ELSE "d0",
                     !.deletionTimestamp = @ \/ change = "deletionTimestamp"]
       IN /\ old.exists
          /\ secrets' = [secrets EXCEPT ![id] = new]
          /\ secretQueue' = IF secretFilter(new) /\ SecretUpdateEnqueues(old, new)
                            THEN controllerEnqueue(secretQueue, new)
                            ELSE secretQueue
          /\ secretEvents' = Delivered("update", old, new)
  /\ UNCHANGED <<cancelCalls, notSecret>>

\* the informer's resync: an update event with the same object twice
SecretResync ==
  /\ secretEvents.count < MaxSecretEvents
  /\ \E id \in SecretIds :
       LET old == secrets[id]
       IN /\ old.exists
          /\ secretQueue' = IF secretFilter(old) /\ SecretUpdateEnqueues(old, old)
                            THEN controllerEnqueue(secretQueue, old)
                            ELSE secretQueue
          /\ secretEvents' = Delivered("update", old, old)
  /\ UNCHANGED <<secrets, cancelCalls, notSecret>>

\* a delete event: DeleteFunc is Enqueue
SecretDeleted ==
  /\ secretEvents.count < MaxSecretEvents
  /\ \E id \in SecretIds :
       LET old == secrets[id]
           new == [old EXCEPT !.exists = FALSE]
       IN /\ old.exists
          /\ secrets' = [secrets EXCEPT ![id] = new]
          /\ secretQueue' = IF secretFilter(old)
                            THEN controllerEnqueue(secretQueue, old)
                            ELSE secretQueue
          /\ secretEvents' = Delivered("delete", old, new)
  /\ UNCHANGED <<cancelCalls, notSecret>>

\* lines 100-132: SyncHandler of a key: whether the lister finds the secret
\* or not, shutdown calls controllerCancel (any other error of the lister
\* returns an error and changes nothing: the key stays queued)
SecretSyncHandler ==
  /\ \E key \in secretQueue :
       /\ secretQueue' = secretQueue \ {key}
       /\ cancelCalls' = cancelCalls + 1
  /\ UNCHANGED <<secrets, secretEvents, notSecret>>

SecretInit == SecretsAtRest /\ CPICAtRest /\ ScaffoldAtRest /\ ProcessAtRest /\ AuxAtRest

SecretNext ==
  \/ SecretAdded
  \/ SecretUpdated
  \/ SecretResync
  \/ SecretDeleted
  \/ SecretSyncHandler

\* the secret controller and the informer that feeds it
SecretSpec == SecretInit /\ [][SecretNext]_vars

(* ---------------------------- node controller --------------------------- *)
\* another client creates, changes or deletes a node; its changes are a
\* new label, or the annotation removed or set to a value of its own
NodeApiEvent ==
  /\ nodeHist.events < MaxNodeEvents
  /\ \E id \in NodeIds,
        kind \in {"create", "label", "removeAnnotation", "setAnnotation",
                  "delete"},
        others \in BOOLEAN :
       LET old == nodes[id]
           new == CASE kind = "create" ->
                         [old EXCEPT !.exists = TRUE, !.others = others,
                                     !.annotation = NoAnnotation,
                                     !.resourceVersion = @ + 1]
                    [] kind = "label" ->
                         [old EXCEPT !.resourceVersion = @ + 1]
                    [] kind = "removeAnnotation" ->
                         [old EXCEPT !.annotation = NoAnnotation,
                                     !.resourceVersion = @ + 1]
                    [] kind = "setAnnotation" ->
                         [old EXCEPT !.annotation = "foreign",
                                     !.resourceVersion = @ + 1]
                    [] OTHER -> [old EXCEPT !.exists = FALSE]
       IN /\ old.exists = (kind # "create")
          /\ kind = "removeAnnotation" => old.annotation # NoAnnotation
          /\ kind # "create" => others = old.others
          /\ nodes' = [nodes EXCEPT ![id] = new]
          /\ nodeHist' = [nodeHist EXCEPT
                            !.events = @ + 1,
                            !.writes[id] = IF kind = "create" THEN 0 ELSE @,
                            !.removals[id] =
                               IF kind = "create" THEN 0
                               ELSE IF kind = "removeAnnotation" THEN @ + 1
                               ELSE @]
  /\ UNCHANGED <<nodeCache, nodeQueue, nodeSync, notNode>>

\* part_002 lines 66-68: the informer brings its cache up to date with a
\* node and calls the handler: only AddFunc is set, and it is Enqueue
\* (the deliveries are told apart by a count modulo 2)
NodeInformerDelivers ==
  /\ \E id \in NodeIds :
       LET old == nodeCache[id]
           new == nodes[id]
           kind == IF ~old.exists THEN "add"
                   ELSE IF new.exists THEN "update" ELSE "delete"
       IN /\ old # new
          /\ old.exists \/ new.exists
          /\ nodeCache' = [nodeCache EXCEPT ![id] = new]
          /\ nodeQueue' = IF kind = "add"
                          THEN controllerEnqueue(nodeQueue, new)
                          ELSE nodeQueue
          /\ nodeHist' = [nodeHist EXCEPT
                            !.delivered = [count |-> (@.count + 1) % 2,
                                           kind |-> kind, key |-> id]]
  /\ UNCHANGED <<nodes, nodeSync, notNode>>

\* the process of the node controller ends and starts again: its queue and
\* its cache start empty, the SyncHandler that was running is gone
NodeControllerStarts ==
  /\ nodeCache' = [id \in NodeIds |-> AbsentNode(id)]
  /\ nodeQueue' = {}
  /\ nodeSync' = IdleNodeSync

\* the orchestrator restarts the process
NodeControllerRestart ==
  /\ nodeHist.events < MaxNodeEvents
  /\ NodeControllerStarts
  /\ nodeHist' = [nodeHist EXCEPT !.events = @ + 1]
  /\ UNCHANGED <<nodes, notNode>>

\* the one-shot check without the check
hasAnnotation_Never(node) == FALSE

\* part_002 lines 94-97: the node already has the annotation
hasAnnotation(node) == node.annotation # NoAnnotation

\* part_002 lines 75-97: SyncHandler of a key of the queue, up to the call
\* of GetNodeSubnet: a node the lister does not find, or one that has the
\* annotation, ends the sync without error
NodeSyncStart ==
  /\ nodeSync.pc = "idle"
  /\ \E key \in nodeQueue :
       LET node == nodeCache[key]
       IN /\ nodeQueue' = nodeQueue \ {key}
          /\ IF ~node.exists
             THEN /\ nodeSync' = IdleNodeSync
                  /\ nodeHist' = nodeHist
             ELSE IF hasAnnotation(node)
             THEN /\ nodeSync' = IdleNodeSync
                  /\ nodeHist' = [nodeHist EXCEPT !.skipped = TRUE]
             ELSE /\ nodeSync' = [pc |-> "GetNodeSubnet", key |-> key,
                                  node |-> node]
                  /\ nodeHist' = nodeHist
  /\ UNCHANGED <<nodes, nodeCache, notNode>>

\* part_002 lines 98-101: GetNodeSubnet; its error is returned and the
\* key is queued again
NodeGetNodeSubnet ==
  /\ nodeSync.pc = "GetNodeSubnet"
  /\ \E err \in BOOLEAN :
       /\ err => nodeHist.errors < MaxSubnetErrors
       /\ IF err
          THEN /\ nodeSync' = IdleNodeSync
               /\ nodeQueue' = nodeQueue \cup {nodeSync.key}
               /\ nodeHist' = [nodeHist EXCEPT !.errors = @ + 1]
          ELSE /\ nodeSync' = [nodeSync EXCEPT !.pc = "Update"]
               /\ UNCHANGED <<nodeQueue, nodeHist>>
  /\ UNCHANGED <<nodes, nodeCache, notNode>>

\* part_002 lines 103-122: SetCloudSubnetAnnotationOnNode under
\* RetryOnConflict, each attempt with the node the sync has read: the
\* assignment to a nil annotations map panics; the Update is accepted when
\* the node still has the resourceVersion that was read, else every
\* attempt fails, the error is returned and the key is queued again
NodeSetAnnotation ==
  /\ nodeSync.pc = "Update"
  /\ LET id == nodeSync.key
         read == nodeSync.node
         stored == nodes[id]
     IN IF ~read.others
        THEN /\ NodeControllerStarts
             /\ UNCHANGED <<nodes, nodeHist>>
        ELSE IF stored.exists /\ stored.resourceVersion = read.resourceVersion
        THEN /\ nodes' = [nodes EXCEPT ![id] =
                            [read EXCEPT !.annotation = "subnets",
                                         !.resourceVersion = @ + 1]]
             /\ nodeHist' = [nodeHist EXCEPT !.writes[id] = @ + 1]
             /\ nodeSync' = IdleNodeSync
             /\ UNCHANGED <<nodeCache, nodeQueue>>
        ELSE /\ nodeSync' = IdleNodeSync
             /\ nodeQueue' = nodeQueue \cup {id}
             /\ UNCHANGED <<nodes, nodeCache, nodeHist>>
  /\ UNCHANGED notNode

NodeInit ==
  /\ NodesAtRest /\ WatcherAtRest /\ ElectionAtRest /\ AdmissionAtRest
  /\ ProcessAtRest /\ CPICAtRest /\ ScaffoldAtRest /\ SecretsAtRest /\ ProvidersAtRest /\ ItemFunctionsAtRest /\ RetryAtRest /\ RunAtRest

NodeNext ==
  \/ NodeApiEvent
  \/ NodeInformerDelivers
  \/ NodeControllerRestart
  \/ NodeSyncStart
  \/ NodeGetNodeSubnet
  \/ NodeSetAnnotation

\* the node controller with one worker, the informer and the other clients
NodeSpec == NodeInit /\ [][NodeNext]_vars

(* --------------------------- admission webhook -------------------------- *)
\* Nodes().Get of the cluster API: nil, a NotFound error that names the
\* node, or another error of the API
NodesGet(name, existing, apiError) ==
  IF apiError THEN <<"the server is currently unable to handle the request">>
  ELSE IF name \in existing THEN nil
  ELSE <<"nodes", name, "not found">>

\* AdmissionFunc that does not look the node up
AdmissionFunc_NoLookup(req, existing) ==
  IF req.resource # "cloudprivateipconfigs"
  THEN <<"expect resource to be cloudprivateipconfigs, got:", req.resource>>
  ELSE IF ~req.objectDecodes
  THEN <<"unable to deserialize CloudPrivateIPConfig object">>
  ELSE nil

\* admission controller lines 39-50: AdmissionFunc returns the error of
\* the lookup of spec.node
AdmissionFunc(req, existing) ==
  IF req.resource # "cloudprivateipconfigs"
  THEN <<"expect resource to be cloudprivateipconfigs, got:", req.resource>>
  ELSE IF ~req.objectDecodes
  THEN <<"unable to deserialize CloudPrivateIPConfig object">>
  ELSE NodesGet(req.specNode, existing, req.apiError)

\* main.go lines 81-134: doServeAdmitFunc returns the AdmissionReview to
\* send, or an error after it wrote a status code
doServeAdmitFunc(r, existing) ==
  IF r.method # "POST"
  THEN [code |-> 405, review |-> FALSE, allowed |-> FALSE,
        message |-> <<"invalid method">>]
  ELSE IF r.contentType # "application/json"
  THEN [code |-> 400, review |-> FALSE, allowed |-> FALSE,
        message |-> <<"unsupported content type">>]
  ELSE IF ~r.reviewDecodes
  THEN [code |-> 400, review |-> FALSE, allowed |-> FALSE,
        message |-> <<"could not deserialize request">>]
  ELSE IF ~r.hasRequest
  THEN [code |-> 400, review |-> FALSE, allowed |-> FALSE,
        message |-> <<"malformed admission review: request is nil">>]
  ELSE LET err == AdmissionFunc(r, existing)
       IN [code |-> 0, review |-> TRUE, allowed |-> err = nil,
           message |-> err]

\* main.go lines 136-150: serveAdmitFunc writes the response: after an
\* error the status code doServeAdmitFunc wrote stays (WriteHeader 500
\* comes second), else the first Write sends 200
serveAdmitFunc(r, existing) ==
  LET out == doServeAdmitFunc(r, existing)
  IN IF out.review THEN [out EXCEPT !.code = 200] ELSE out

\* the server handles a request and goes on serving
ServeRequest ==
  /\ admission.serving
  /\ admission.served < MaxRequests
  /\ \E r \in AdmissionRequests :
       LET response == serveAdmitFunc(r, clusterNodes)
       IN admission' = [admission EXCEPT
                          !.served = @ + 1,
                          !.denials = IF response.review /\ ~response.allowed
                                      THEN @ + 1 ELSE @,
                          !.request = r,
                          !.response = response]
  /\ UNCHANGED <<clusterNodes, notAdm>>

\* a node joins or leaves the cluster
ClusterNodeChanges ==
  /\ \E name \in NodeNames :
       clusterNodes' = IF name \in clusterNodes
                       THEN clusterNodes \ {name}
                       ELSE clusterNodes \cup {name}
  /\ UNCHANGED <<admission, notAdm>>

AdmissionInit ==
  /\ AdmissionAtRest /\ NodesAtRest /\ WatcherAtRest /\ ElectionAtRest
  /\ ProcessAtRest /\ CPICAtRest /\ ScaffoldAtRest /\ SecretsAtRest /\ ProvidersAtRest /\ ItemFunctionsAtRest /\ RetryAtRest /\ RunAtRest

AdmissionNext == ServeRequest \/ ClusterNodeChanges

\* the admission webhook's server
AdmissionSpec == AdmissionInit /\ [][AdmissionNext]_vars

(* --------------------------- provider adapters -------------------------- *)
\* the result of an adapter call: the error returned, whether a mutating
\* cloud call was issued, the addresses of the interface afterwards
AdapterResult(err, mutating, addresses) ==
  [err |-> err, mutating |-> mutating, addresses |-> addresses]

\* aws.go lines 42-90: AWS.AssignPrivateIP: the IP is looked for among the
\* Ipv6Addresses (an IPv6) or the PrivateIpAddresses (an IPv4) of the first
\* interface; an existing IP returns an error made with fmt.Errorf
AWSAssignPrivateIP(ip, addresses, apiError) ==
  IF apiError = "get" THEN AdapterResult("api error", FALSE, addresses)
  ELSE IF \E a \in addresses :
            IsIPv6(a) = IsIPv6(ip) /\ ParseIP(a) # NoIP /\ ParseIP(a) = ip
  THEN AdapterResult("error: cannot assign existing IP", FALSE, addresses)
  ELSE IF apiError = "mutate" THEN AdapterResult("api error", TRUE, addresses)
  ELSE AdapterResult("nil", TRUE, addresses \cup {ip})

\* part_004 lines 72-114: Azure.AssignPrivateIP: the IP is looked for among
\* the IPConfigurations of the primary interface
AzureAssignPrivateIP(ip, addresses, apiError) ==
  IF apiError = "get" THEN AdapterResult("api error", FALSE, addresses)
  ELSE IF \E a \in addresses : ParseIP(a) # NoIP /\ ParseIP(a) = ip
  THEN AdapterResult(AlreadyExistingIPError, FALSE, addresses)
  ELSE IF apiError = "mutate" THEN AdapterResult("api error", TRUE, addresses)
  ELSE AdapterResult("nil", TRUE, addresses \cup {ip})

\* aws.go lines 264-293: GCP.AssignPrivateIP: the IP is looked for among
\* the AliasIpRanges of the first interface, each read as an IP and as a
\* CIDR; the cloud stores the new alias as the IP or as its /32
GCPAssignPrivateIP(ip, addresses, apiError, stored) ==
  IF apiError = "get" THEN AdapterResult("api error", FALSE, addresses)
  ELSE IF \E a \in addresses :
            \/ ParseIP(a) = ip
            \/ ParseCIDRContains(a, ip)
  THEN AdapterResult(AlreadyExistingIPError, FALSE, addresses)
  ELSE IF apiError = "mutate" THEN AdapterResult("api error", TRUE, addresses)
  ELSE AdapterResult("nil", TRUE, addresses \cup {stored})

\* the forms in which GCP returns an alias added as an IP
StoredForms(ip) == IF IsIPv6(ip) THEN {ip} ELSE {ip, ip \o "/32"}

\* what is recorded of a call, and the addresses it found
Called(p, ip, apiError, result) ==
  [count |-> cloudCall.count + 1, provider |-> p, ip |-> ip,
   apiError |-> apiError, err |-> result.err, mutating |-> result.mutating,
   release |-> FALSE, before |-> nic[p]]

\* the cloud API answers, or fails at the read or at the mutating call
ApiErrors == {"none", "get", "mutate"}

\* AssignPrivateIP of the AWS adapter is called
AWSAssign ==
  /\ cloudCall.count < MaxProviderCalls
  /\ \E ip \in IPs, apiError \in ApiErrors :
       LET result == AWSAssignPrivateIP(ip, nic["aws"], apiError)
       IN /\ nic' = [nic EXCEPT !["aws"] = result.addresses]
          /\ cloudCall' = Called("aws", ip, apiError, result)
  /\ UNCHANGED notProv

\* AssignPrivateIP of the Azure adapter is called
AzureAssign ==
  /\ cloudCall.count < MaxProviderCalls
  /\ \E ip \in IPs, apiError \in ApiErrors :
       LET result == AzureAssignPrivateIP(ip, nic["azure"], apiError)
       IN /\ nic' = [nic EXCEPT !["azure"] = result.addresses]
          /\ cloudCall' = Called("azure", ip, apiError, result)
  /\ UNCHANGED notProv

\* AssignPrivateIP of the GCP adapter is called
GCPAssign ==
  /\ cloudCall.count < MaxProviderCalls
  /\ \E ip \in IPs, apiError \in ApiErrors, stored \in AddressTexts :
       LET result == GCPAssignPrivateIP(ip, nic["gcp"], apiError, stored)
       IN /\ stored \in StoredForms(ip)
          /\ nic' = [nic EXCEPT !["gcp"] = result.addresses]
          /\ cloudCall' = Called("gcp", ip, apiError, result)
  /\ UNCHANGED notProv

\* the VMs at the start: without secondary address, or (GCP) with an alias
\* range that is a CIDR
ProviderInit ==
  /\ nic \in {[p \in Providers |-> {}],
              [p \in Providers |-> IF p = "gcp" THEN {"10.0.0.0/30"} ELSE {}]}
  /\ cloudCall = NoCloudCall
  /\ AdmissionAtRest /\ NodesAtRest /\ WatcherAtRest /\ ElectionAtRest
  /\ ProcessAtRest /\ CPICAtRest /\ ScaffoldAtRest /\ SecretsAtRest /\ ItemFunctionsAtRest /\ RetryAtRest /\ RunAtRest

ProviderNext == AWSAssign \/ AzureAssign \/ GCPAssign

\* the provider adapters called one after the other
ProviderSpec == ProviderInit /\ [][ProviderNext]_vars

(* ------------------ functions of the item-list reconciler -------------- *)
\* getKey that leaves the IP out
getKey_NodeOnly(item) == item.node

\* lines 264-266: getKey: fmt.Sprintf("%s/%s", item.Node, item.IP)
getKey(item) == item.node \o "/" \o item.ip

\* lines 227-239: complement: the items of a whose key is not a key of b,
\* in the order of a
complement(a, b) ==
  LET tmp == {getKey(b[i]) : i \in DOMAIN b}
      exists(item) == getKey(item) \in tmp
  IN SelectSeq(a, LAMBDA item : ~exists(item))

\* lines 221-225: computeRequestDiff
computeRequestDiff(specItems, statusItems) ==
  [called |-> TRUE,
   toAdd |-> complement(specItems, statusItems),
   toDel |-> complement(statusItems, specItems)]

\* lines 244-249: the first loop of isValidSpec: the index of the first
\* item whose key was seen before, 0 if there is none
FirstDuplicate(items) ==
  LET dup == {i \in DOMAIN items :
                \E j \in 1..(i - 1) : getKey(items[j]) = getKey(items[i])}
  IN IF dup = {} THEN 0 ELSE CHOOSE i \in dup : \A k \in dup : i <= k

\* lines 252-260: the second loop of isValidSpec from item i on, with the
\* set tmp of the IP texts seen so far
RECURSIVE ValidateIPs(_, _, _)
ValidateIPs(items, i, tmp) ==
  IF i > Len(items) THEN "nil"
  ELSE IF ParseIP(items[i].ip) = NoIP
  THEN "invalid IP address found in the .spec stanza"
  ELSE IF items[i].ip \in tmp
  THEN "IP has been defined on multiple nodes"
  ELSE ValidateIPs(items, i + 1, tmp \cup {items[i].ip})

\* lines 241-262: isValidSpec
isValidSpec(items) ==
  [called |-> TRUE,
   err |-> IF FirstDuplicate(items) # 0
           THEN "duplicate items found in the .spec stanza"
           ELSE ValidateIPs(items, 1, {})]

\* computeRequestDiff is called
ComputeRequestDiff ==
  /\ ~returned.called
  /\ returned' = computeRequestDiff(args.specItems, args.statusItems)
  /\ UNCHANGED <<args, notItem>>

\* isValidSpec is called
IsValidSpec ==
  /\ ~returned.called
  /\ returned' = isValidSpec(args.items)
  /\ UNCHANGED <<args, notItem>>

OthersAtRest ==
  /\ ProvidersAtRest /\ AdmissionAtRest /\ NodesAtRest /\ WatcherAtRest
  /\ ElectionAtRest /\ ProcessAtRest /\ CPICAtRest /\ ScaffoldAtRest
  /\ SecretsAtRest

\* the items of a CloudPrivateIPConfig handed to computeRequestDiff
DiffItems == {item \in CloudPrivateIPConfigItems :
                item.ip \in {"10.0.0.1", "fd00::1"}}

DiffInit ==
  /\ args \in [specItems : ListsUpTo(DiffItems, MaxItems),
               statusItems : ListsUpTo(DiffItems, MaxItems)]
  /\ returned = NoResult
  /\ OthersAtRest /\ RetryAtRest /\ RunAtRest

DiffNext == ComputeRequestDiff

\* computeRequestDiff on every pair of lists
DiffSpec == DiffInit /\ [][DiffNext]_vars

ValidationInit ==
  /\ args \in [items : ListsUpTo(CloudPrivateIPConfigItems, MaxSpecItems)]
  /\ returned = NoResult
  /\ OthersAtRest /\ RetryAtRest /\ RunAtRest

ValidationNext == IsValidSpec

\* isValidSpec on every list
ValidationSpec == ValidationInit /\ [][ValidationNext]_vars

(* ------------------------- GCP.ReleasePrivateIP ------------------------ *)
\* net.ParseCIDR: the address of a text that is a CIDR, nil (an error) for
\* any other text
ParseCIDRAddress(text) ==
  IF text = "10.0.0.1/32" THEN "10.0.0.1"
  ELSE IF text = "10.0.0.2/32" THEN "10.0.0.2"
  ELSE IF text = "10.0.0.0/30" THEN "10.0.0.0"
  ELSE NoIP

\* aws.go lines 304-312: what one alias range adds to keepAliases: it is
\* kept when it is an IP that is not the target (and the loop continues),
\* or when it is a CIDR whose address is not the target
keepAliasRange(ip, aliasIPRange) ==
  IF ParseIP(aliasIPRange) # NoIP /\ ParseIP(aliasIPRange) # ip
  THEN <<aliasIPRange>>
  ELSE IF ParseCIDRAddress(aliasIPRange) # NoIP
          /\ ParseCIDRAddress(aliasIPRange) # ip
  THEN <<aliasIPRange>>
  ELSE <<>>

\* aws.go lines 481-488, the earlier ReleasePrivateIP: the first test has
\* no check of a nil assignedIP (Equal of a nil IP is false) and no
\* continue, and the second test appends once more
keepAliasRangeEarlier(ip, aliasIPRange) ==
  (IF ParseIP(aliasIPRange) # ip THEN <<aliasIPRange>> ELSE <<>>)
  \o (IF ParseCIDRAddress(aliasIPRange) # NoIP
         /\ ParseCIDRAddress(aliasIPRange) # ip
      THEN <<aliasIPRange>> ELSE <<>>)

\* aws.go lines 303-313 and 480-489: the loop over the alias ranges of an
\* interface
RECURSIVE keepAliases(_, _, _, _, _)
keepAliases(earlier, ip, aliasIpRanges, i, keep) ==
  IF i > Len(aliasIpRanges) THEN keep
  ELSE keepAliases(earlier, ip, aliasIpRanges, i + 1,
                   keep \o (IF earlier
                            THEN keepAliasRangeEarlier(ip, aliasIpRanges[i])
                            ELSE keepAliasRange(ip, aliasIpRanges[i])))

\* the instance is read; the alias ranges of its first interface are
\* rebuilt and sent with UpdateNetworkInterface, and the loop over the
\* interfaces breaks
ReleaseFromFirstInterface(earlier, ip, networkInterfaces, apiError) ==
  IF apiError = "get"
  THEN [called |-> TRUE, err |-> "api error", updated |-> {},
        interfaces |-> networkInterfaces]
  ELSE IF networkInterfaces = <<>>
  THEN [called |-> TRUE, err |-> "nil", updated |-> {},
        interfaces |-> networkInterfaces]
  ELSE IF apiError = "mutate"
  THEN [called |-> TRUE, err |-> "api error", updated |-> {1},
        interfaces |-> networkInterfaces]
  ELSE [called |-> TRUE, err |-> "nil", updated |-> {1},
        interfaces |->
          [networkInterfaces EXCEPT
             ![1] = keepAliases(earlier, ip, networkInterfaces[1], 1, <<>>)]]

\* aws.go lines 295-327: GCP.ReleasePrivateIP
GCPReleasePrivateIP(ip, networkInterfaces, apiError) ==
  ReleaseFromFirstInterface(FALSE, ip, networkInterfaces, apiError)

\* aws.go lines 472-500: GCP.ReleasePrivateIP, the earlier one
GCPReleasePrivateIPEarlier(ip, networkInterfaces, apiError) ==
  ReleaseFromFirstInterface(TRUE, ip, networkInterfaces, apiError)

\* ReleasePrivateIP of the GCP adapter is called
GCPRelease ==
  /\ ~returned.called
  /\ returned' = GCPReleasePrivateIP(args.ip, args.interfaces, args.apiError)
  /\ UNCHANGED <<args, notItem>>

\* the earlier ReleasePrivateIP of the GCP adapter is called
GCPReleaseEarlier ==
  /\ ~returned.called
  /\ returned' =
       GCPReleasePrivateIPEarlier(args.ip, args.interfaces, args.apiError)
  /\ UNCHANGED <<args, notItem>>

\* the alias ranges GCP returns: an IP, the /32 of an IP, a wider CIDR
AliasIpRanges == {"10.0.0.1", "10.0.0.1/32", "10.0.0.0/30", "fd00::1"}

\* the instance the cloud returns: each interface with its alias ranges
GCPReleaseInit ==
  /\ args \in [ip : IPs,
                apiError : ApiErrors,
                interfaces : ListsUpTo(ListsUpTo(AliasIpRanges, MaxAliasRanges),
                                       MaxInterfaces)]
  /\ returned = NoResult
  /\ OthersAtRest /\ RetryAtRest /\ RunAtRest

GCPReleaseNext == GCPRelease \/ GCPReleaseEarlier

\* the two GCP.ReleasePrivateIP on every instance
GCPReleaseSpec == GCPReleaseInit /\ [][GCPReleaseNext]_vars

(* ----------------- ReleasePrivateIP of the adapters -------------------- *)
\* ReleasePrivateIP that sends no address but starts from an empty list
AzureReleasePrivateIP_KeepNone(ip, addresses, apiError) ==
  IF apiError \in {"get", "mutate"}
  THEN AdapterResult("api error", apiError = "mutate", addresses)
  ELSE AdapterResult("nil", TRUE, {})

\* aws.go lines 90-135: AWS.ReleasePrivateIP: the instance is read, and
\* the addresses of the family of the IP that parse and are not the IP are
\* sent for the first interface
AWSReleasePrivateIP(ip, addresses, apiError) ==
  IF apiError \in {"get", "mutate"}
  THEN AdapterResult("api error", apiError = "mutate", addresses)
  ELSE AdapterResult("nil", TRUE,
         {a \in addresses :
            IsIPv6(a) = IsIPv6(ip) => (ParseIP(a) # NoIP /\ ParseIP(a) # ip)})

\* part_004 lines 116-144: Azure.ReleasePrivateIP: the primary interface
\* is read, and its IPConfigurations whose address parses and is not the
\* IP are sent
AzureReleasePrivateIP(ip, addresses, apiError) ==
  IF apiError \in {"get", "mutate"}
  THEN AdapterResult("api error", apiError = "mutate", addresses)
  ELSE AdapterResult("nil", TRUE,
         {a \in addresses : ParseIP(a) # NoIP /\ ParseIP(a) # ip})

\* aws.go lines 295-327: GCP.ReleasePrivateIP on the alias ranges of the
\* first interface
GCPReleaseAliases(ip, addresses, apiError) ==
  IF apiError \in {"get", "mutate"}
  THEN AdapterResult("api error", apiError = "mutate", addresses)
  ELSE AdapterResult("nil", TRUE,
         {a \in addresses : keepAliasRange(ip, a) # <<>>})

\* ReleasePrivateIP of the AWS adapter is called
AWSRelease ==
  /\ cloudCall.count < MaxProviderCalls
  /\ \E ip \in IPs, apiError \in ApiErrors :
       LET result == AWSReleasePrivateIP(ip, nic["aws"], apiError)
       IN /\ nic' = [nic EXCEPT !["aws"] = result.addresses]
          /\ cloudCall' = [Called("aws", ip, apiError, result)
                             EXCEPT !.release = TRUE]
  /\ UNCHANGED notProv

\* ReleasePrivateIP of the Azure adapter is called
AzureRelease ==
  /\ cloudCall.count < MaxProviderCalls
  /\ \E ip \in IPs, apiError \in ApiErrors :
       LET result == AzureReleasePrivateIP(ip, nic["azure"], apiError)
       IN /\ nic' = [nic EXCEPT !["azure"] = result.addresses]
          /\ cloudCall' = [Called("azure", ip, apiError, result)
                             EXCEPT !.release = TRUE]
  /\ UNCHANGED notProv

\* ReleasePrivateIP of the GCP adapter is called on the VM
GCPReleaseOnVM ==
  /\ cloudCall.count < MaxProviderCalls
  /\ \E ip \in IPs, apiError \in ApiErrors :
       LET result == GCPReleaseAliases(ip, nic["gcp"], apiError)
       IN /\ nic' = [nic EXCEPT !["gcp"] = result.addresses]
          /\ cloudCall' = [Called("gcp", ip, apiError, result)
                             EXCEPT !.release = TRUE]
  /\ UNCHANGED notProv

\* the VMs at the start: with a secondary address of another client, or
\* as in ProviderInit
AdapterInit ==
  \/ ProviderInit
  \/ /\ nic = [p \in Providers |-> {"10.0.0.2"}]
     /\ cloudCall = NoCloudCall
     /\ AdmissionAtRest /\ NodesAtRest /\ WatcherAtRest /\ ElectionAtRest
     /\ ProcessAtRest /\ CPICAtRest /\ ScaffoldAtRest /\ SecretsAtRest
     /\ ItemFunctionsAtRest /\ RetryAtRest /\ RunAtRest

AdapterNext ==
  \/ AWSAssign \/ AzureAssign \/ GCPAssign
  \/ AWSRelease \/ AzureRelease \/ GCPReleaseOnVM

\* AssignPrivateIP and ReleasePrivateIP of the adapters, one call after the
\* other
AdapterSpec == AdapterInit /\ [][AdapterNext]_vars

(* ------------------ syncHandler of the item lists --------------------- *)
\* lines 105-118: the loop over toRelease from item i on: the first node
\* the informer does not find, or the first ReleasePrivateIP that fails,
\* returns its error; released are the items released before
RECURSIVE ReleaseItems(_, _, _, _, _)
ReleaseItems(toRelease, i, unknownNode, failing, released) ==
  IF i > Len(toRelease) THEN [err |-> "nil", released |-> released]
  ELSE IF toRelease[i].node = unknownNode
  THEN [err |-> "node not found", released |-> released]
  ELSE IF toRelease[i] \in failing
  THEN [err |-> "release error", released |-> released]
  ELSE ReleaseItems(toRelease, i + 1, unknownNode, failing,
                    Append(released, toRelease[i]))

\* lines 119-131: the loop over toAssign from item i on: a node the
\* informer does not find returns an error; an item whose AssignPrivateIP
\* succeeds is appended to newStatus.Items, one whose assign fails is not
RECURSIVE AssignItems(_, _, _, _, _)
AssignItems(toAssign, i, unknownNode, failing, newStatus) ==
  IF i > Len(toAssign) THEN [err |-> "nil", newStatus |-> newStatus]
  ELSE IF toAssign[i].node = unknownNode
  THEN [err |-> "node not found", newStatus |-> newStatus]
  ELSE AssignItems(toAssign, i + 1, unknownNode, failing,
                   IF toAssign[i] \in failing
                   THEN newStatus ELSE Append(newStatus, toAssign[i]))

\* lines 87-138: syncHandler of the CloudPrivateIPConfig the lister
\* returns: the releases, then the assigns, then the Update that replaces
\* the status by newStatus; the result holds the error returned, the items
\* released and assigned in the cloud and the status.items persisted
syncHandler(specItems, statusItems, unknownNode, failing, updateError) ==
  LET diff == computeRequestDiff(specItems, statusItems)
      release == ReleaseItems(diff.toDel, 1, unknownNode, failing, <<>>)
      assign == AssignItems(diff.toAdd, 1, unknownNode, failing, <<>>)
  IN IF release.err # "nil"
     THEN [called |-> TRUE, err |-> release.err,
           released |-> release.released, assigned |-> <<>>,
           statusItems |-> statusItems]
     ELSE IF assign.err # "nil"
     THEN [called |-> TRUE, err |-> assign.err,
           released |-> release.released, assigned |-> assign.newStatus,
           statusItems |-> statusItems]
     ELSE [called |-> TRUE,
           err |-> IF Len(assign.newStatus) # Len(diff.toAdd)
                   THEN "updated with an incomplete status"
                   ELSE IF updateError THEN "update error" ELSE "nil",
           released |-> release.released, assigned |-> assign.newStatus,
           statusItems |-> IF updateError THEN statusItems
                           ELSE assign.newStatus]

\* syncHandler is called
ListSyncHandler ==
  /\ ~returned.called
  /\ returned' = syncHandler(args.specItems, args.statusItems,
                             args.unknownNode, args.failing, args.updateError)
  /\ UNCHANGED <<args, notItem>>

\* the lists of a CloudPrivateIPConfig that was enqueued: no item twice; a
\* node missing from the informer, an item whose cloud call fails
ListSyncInit ==
  /\ args \in [specItems : {l \in ListsUpTo(DiffItems, MaxItems) :
                                FirstDuplicate(l) = 0},
               statusItems : {l \in ListsUpTo(DiffItems, MaxItems) :
                                  FirstDuplicate(l) = 0},
               unknownNode : {"none", "node2"},
               failing : {{}} \cup {{item} : item \in DiffItems},
               updateError : BOOLEAN]
  /\ returned = NoResult
  /\ OthersAtRest /\ RetryAtRest /\ RunAtRest

ListSyncNext == ListSyncHandler

\* syncHandler of the item lists on every CloudPrivateIPConfig
ListSyncSpec == ListSyncInit /\ [][ListSyncNext]_vars

(* --------------------- a write under RetryOnConflict ------------------- *)
\* lines 467-480: updateCloudPrivateIPConfigStatus and
\* updateCloudPrivateIPConfig send a copy of the object they are given; the
\* client refuses an object without name, the API server refuses one whose
\* resourceVersion is not the stored one; a refused call returns an empty
\* object with its error
UpdateCall(stored, cpic) ==
  IF cpic.kind = "empty"
  THEN [err |-> "invalid", object |-> EmptyObject, stored |-> stored]
  ELSE IF cpic.resourceVersion # stored.resourceVersion
  THEN [err |-> "conflict", object |-> EmptyObject, stored |-> stored]
  ELSE [err |-> "nil",
        object |-> ObjectAt(stored.resourceVersion + 1),
        stored |-> [resourceVersion |-> stored.resourceVersion + 1,
                    status |-> "intended"]]

\* lines 223-226 (and 201-204, 268-271, 295-298, 340-343, 362-365, 393-396,
\* 407-410, 437-440): the closure assigns what the call returned to
\* cloudPrivateIPConfig; lines 244-247 and 461-464: the closure drops it
Overwrites(site) == site = "interim status"

\* retry.RetryOnConflict: the closure is called again after a conflict
\* while steps are left; nil and every other error are returned at once
RetriesAfter(err, n) == err = "conflict" /\ n < DefaultRetrySteps

\* one call of the closure by RetryOnConflict
UpdateAttempt ==
  /\ attempt.pc = "RetryOnConflict"
  /\ LET call == UpdateCall(apiObject, attempt.cpic)
         n == attempt.n + 1
         again == RetriesAfter(call.err, n)
     IN /\ apiObject' = call.stored
        /\ attempt' = [attempt EXCEPT
             !.n = n,
             !.sent = [object |-> attempt.cpic, status |-> "intended"],
             !.err = call.err,
             !.cpic = IF Overwrites(attempt.site) THEN call.object ELSE @,
             !.pc = IF again THEN "RetryOnConflict" ELSE "returned",
             !.result = IF again THEN "none"
                        ELSE IF call.err # "nil" THEN "returns err"
                        ELSE IF Overwrites(attempt.site) THEN "continues"
                        ELSE "returns nil",
             !.requeued = ~again /\ call.err # "nil"]
  /\ UNCHANGED notRetry

\* another client writes the object (the consumer changes the spec)
OtherClientWrites ==
  /\ attempt.others < MaxOtherWrites
  /\ apiObject' = [apiObject EXCEPT !.resourceVersion = @ + 1]
  /\ attempt' = [attempt EXCEPT !.others = @ + 1]
  /\ UNCHANGED notRetry

\* the key was queued again: the next sync reads the object and comes to a
\* write
KeyProcessedAgain ==
  /\ attempt.pc = "returned"
  /\ attempt.requeued
  /\ attempt.syncs < MaxResyncs
  /\ \E site \in Sites :
       attempt' = [NoAttempt EXCEPT
         !.site = site, !.pc = "RetryOnConflict",
         !.cpic = ObjectAt(apiObject.resourceVersion),
         !.others = attempt.others, !.syncs = attempt.syncs + 1]
  /\ UNCHANGED <<apiObject, notRetry>>

\* a sync has read the object and is about to write it
RetryInit ==
  /\ apiObject = [resourceVersion |-> 1, status |-> "previous"]
  /\ \E site \in Sites :
       attempt = [NoAttempt EXCEPT !.site = site, !.pc = "RetryOnConflict",
                                   !.cpic = ObjectAt(1)]
  /\ OthersAtRest /\ ItemFunctionsAtRest /\ RunAtRest

RetryNext ==
  \/ UpdateAttempt
  \/ OtherClientWrites
  \/ KeyProcessedAgain

\* the writes of SyncHandler under RetryOnConflict
RetrySpec == RetryInit /\ [][RetryNext]_vars

(* ------------------ SyncHandler up to its first cloud call -------------- *)
\* the keys of the work queue: a name (the object is cluster scoped), and a
\* text cache.SplitMetaNamespaceKey refuses
WellFormedKey == "192.168.126.11"
MalformedKey == "a/b/c"

\* the objects the lister may hold for the key
CachedObjects ==
  {NoObject} \cup
  {[exists |-> TRUE, specNode |-> sn, statusNode |-> tn, conditions |-> cs,
    finalizers |-> fs, deletionTimestamp |-> dt, resourceVersion |-> 1] :
     sn \in Nodes, tn \in Nodes \cup {NoNode},
     cs \in {<<Condition(st, cloudResponseReasonPending, 1)>> :
               st \in {ConditionTrue, ConditionFalse, ConditionUnknown}},
     fs \in {{}, {cloudPrivateIPConfigFinalizer}}, dt \in BOOLEAN}

\* lines 146-152: cache.SplitMetaNamespaceKey
SplitMetaNamespaceKey(key) == IF key = MalformedKey THEN "err" ELSE "nil"

\* the lister error taken for any other error
OnListerError_AlwaysError(err) == "return err"

\* lines 156-165: a NotFound of the lister ends the sync with nil, another
\* error is returned
OnListerError(err) == IF err = "NotFound" THEN "return nil" ELSE "return err"

\* lines 179-182 and 309-312: nodesLister.Get; with an error the node is
\* nil and the error message is built from node.Name
NodeLookup(node, cache, call) == IF node \in cache THEN call ELSE "panic"

\* lines 140-184 and 304-321: where SyncHandler is when it returns or
\* issues its first cloud call
SyncHandlerEntry(key, cpic, cache) ==
  IF SplitMetaNamespaceKey(key) = "err" THEN "return nil"
  ELSE IF ~cpic.exists THEN OnListerError("NotFound")
  ELSE LET op == computeOp(cpic)
       IN IF op = <<NoNode, NoNode>> THEN "return nil"
          ELSE IF op[2] # NoNode THEN NodeLookup(op[2], cache, "ReleasePrivateIP")
          ELSE NodeLookup(op[1], cache, "AssignPrivateIP")

\* processNextWorkItem after syncHandler: nil forgets the key, an error
\* adds it again rate limited, a panic is not recovered by the worker
AfterSyncHandler(outcome) ==
  IF outcome = "return nil" THEN "Forget"
  ELSE IF outcome = "return err" THEN "AddRateLimited"
  ELSE IF outcome = "panic" THEN "crash"
  ELSE "running"

\* SyncHandler is called with a key
SyncHandlerCalled ==
  /\ ~returned.called
  /\ LET outcome == SyncHandlerEntry(args.key, args.cpic, args.nodes)
     IN returned' = [called |-> TRUE, outcome |-> outcome,
                     worker |-> AfterSyncHandler(outcome),
                     cloudCalls |-> IF outcome \in {"ReleasePrivateIP", "AssignPrivateIP"}
                                    THEN 1 ELSE 0,
                     writes |-> 0]
  /\ UNCHANGED <<args, notItem>>

EntryInit ==
  /\ args \in [key : {WellFormedKey, MalformedKey}, cpic : CachedObjects,
               nodes : SUBSET Nodes]
  /\ returned = NoResult
  /\ OthersAtRest /\ RetryAtRest /\ RunAtRest

EntryNext == SyncHandlerCalled

\* SyncHandler on every key, cached object and node cache
EntrySpec == EntryInit /\ [][EntryNext]_vars

(* ---------------------------------- Run -------------------------------- *)
\* WaitForCacheSync that is content with one synced cache
WaitForCacheSync_AnySynced(synced, stopped) ==
  IF synced # {} THEN "ok"
  ELSE IF stopped THEN "failed"
  ELSE "waiting"

\* line 231: cache.WaitForCacheSync(stopCh, c.Synced...): true once every
\* cache has synced, false when the stop channel is closed before that
WaitForCacheSync(synced, stopped) ==
  IF synced = RunInformers THEN "ok"
  ELSE IF stopped THEN "failed"
  ELSE "waiting"

\* an informer has listed its objects; the informers run on the same stop
\* channel and stop with it
InformerSyncs ==
  /\ ~run.stopped
  /\ \E i \in RunInformers \ run.synced :
       run' = [run EXCEPT !.synced = @ \cup {i}]
  /\ UNCHANGED notRun

\* an event handler adds a key: Workqueue.Add does nothing once the queue
\* is shutting down
EventHandlerAdds ==
  /\ run.added < MaxRunItems
  /\ run' = [run EXCEPT !.added = @ + 1,
                        !.queue = IF run.shuttingDown THEN @ ELSE @ + 1]
  /\ UNCHANGED notRun

\* the stop channel is closed
StopClosed ==
  /\ ~run.stopped
  /\ run' = [run EXCEPT !.stopped = TRUE]
  /\ UNCHANGED notRun

\* lines 231-239: WaitForCacheSync returns; false: Run returns an error
\* (and the deferred ShutDown runs); true: a goroutine per worker is started
RunAfterCacheSync ==
  /\ run.pc = "WaitForCacheSync"
  /\ LET ok == WaitForCacheSync(run.synced, run.stopped)
     IN /\ ok # "waiting"
        /\ run' = IF ok = "ok"
                  THEN [run EXCEPT !.pc = "<-stopCh",
                                   !.worker = [w \in Workers |-> "Until"]]
                  ELSE [run EXCEPT !.pc = "returned err", !.shuttingDown = TRUE]
  /\ UNCHANGED notRun

\* lines 242-245 and 224: the stop channel is closed, Run returns nil and
\* its deferred Workqueue.ShutDown runs
RunReturns ==
  /\ run.pc = "<-stopCh"
  /\ run.stopped
  /\ run' = [run EXCEPT !.pc = "returned nil", !.shuttingDown = TRUE]
  /\ UNCHANGED notRun

\* line 238: wait.Until calls runWorker unless the stop channel is closed
WorkerUntil(w) ==
  /\ run.worker[w] = "Until"
  /\ run' = [run EXCEPT !.worker[w] = IF run.stopped THEN "exited" ELSE "Get"]
  /\ UNCHANGED notRun

\* lines 251-263: Workqueue.Get hands out an item while there is one, also
\* of a queue that is shutting down; it reports the shutdown when the queue
\* is empty, and runWorker returns
RunWorkerGet(w) ==
  /\ run.worker[w] = "Get"
  /\ run.queue > 0 \/ run.shuttingDown
  /\ run' = IF run.queue > 0
            THEN [run EXCEPT !.queue = @ - 1, !.syncs = @ + 1,
                             !.worker[w] = "syncHandler",
                             !.lateDispatch = @ \/ run.shuttingDown]
            ELSE [run EXCEPT !.worker[w] = "Until"]
  /\ UNCHANGED notRun

\* lines 291-300: syncHandler returns, processNextWorkItem returns true
RunWorkerSyncReturns(w) ==
  /\ run.worker[w] = "syncHandler"
  /\ run' = [run EXCEPT !.worker[w] = "Get"]
  /\ UNCHANGED notRun

\* Run is called
RunInit ==
  /\ run = [NotRunning EXCEPT !.pc = "WaitForCacheSync"]
  /\ OthersAtRest /\ ItemFunctionsAtRest /\ RetryAtRest

RunNext ==
  \/ InformerSyncs
  \/ EventHandlerAdds
  \/ StopClosed
  \/ RunAfterCacheSync
  \/ RunReturns
  \/ \E w \in Workers : WorkerUntil(w)
  \/ \E w \in Workers : RunWorkerGet(w)
  \/ \E w \in Workers : RunWorkerSyncReturns(w)

\* Run of a controller with its informers, queue and workers
RunSpec == RunInit /\ [][RunNext]_vars

(* ======================== properties of the reconciler ================= *)
HasFinalizer == obj.exists /\ ContainsFinalizer(obj, cloudPrivateIPConfigFinalizer)

AssignedTrue ==
  /\ obj.exists
  /\ Len(obj.conditions) > 0
  /\ obj.conditions[1].status = ConditionTrue

\* no sync is running and none is pending
ReconcilerIdle == pc = "idle" /\ ~queued

\* a sync has returned (it is not running and did not die)
SyncReturned == h.result \in {"ok", "err"}

\* C1: the cloud never holds the IP on two distinct nodes at the same time
C1_IPOnAtMostOneNode == Cardinality(cloud) <= 1

\* C2: whenever the cloud holds the IP on some node, the object exists and
\* carries the finalizer
C2_FinalizerWhileCloudHoldsIP == cloud # {} => HasFinalizer

\* C3: the finalizer is removed only by a sync of an object with a
\* deletionTimestamp, after ReleasePrivateIP was issued for status.node and
\* the wait for that release returned no error; a sync whose release request
\* or release wait failed returns an error and has not removed the finalizer
C3_FinalizerRemovedOnlyAfterRelease ==
  /\ [][(HasFinalizer /\ ~HasFinalizer') =>
          /\ pc = "RemoveFinalizer"
          /\ obj.deletionTimestamp
          /\ h.rel = "ok"
          /\ h.relNode = obj.statusNode
          /\ h.relWait = "ok"
          /\ h'.finalizerRemoved]_vars
  /\ []((SyncReturned /\ (h.rel = "err" \/ h.relWait = "err")) =>
          (h.result = "err" /\ ~h.finalizerRemoved))

\* a delete sync has released the IP, waited and removed the finalizer
C3_Witness ==
  /\ h.finalizerRemoved
  /\ h.result = "ok"
  /\ h.rel = "ok"
  /\ h.relWait = "ok"
  /\ ~obj.exists

\* C4: an object with a deletionTimestamp and the finalizer eventually loses
\* the finalizer (and so leaves the store), whatever its status is
C4_DeletionCompletes ==
  (HasFinalizer /\ obj.deletionTimestamp) ~> ~obj.exists

\* the state in which the consumer considers the IP assigned, with the
\* cloud holding the IP on spec.node
Converged ==
  /\ AssignedTrue
  /\ obj.specNode = obj.statusNode
  /\ obj.conditions[1].reason = cloudResponseReasonSuccess
  /\ obj.specNode \in cloud

\* C5: an object that is not deleted eventually reaches, and stays in, the
\* state spec.node = status.node, Assigned=True / CloudResponseSuccess, with
\* the cloud holding the IP on spec.node
C5_EventuallyAssigned ==
  <>[](~obj.exists \/ obj.deletionTimestamp \/ Converged)

\* C6: when the reconciler is idle and the condition is True, status.node is
\* set and the cloud holds the IP on exactly status.node
C6_TrueMeansCloudHoldsOnStatusNode ==
  (ReconcilerIdle /\ AssignedTrue) =>
    (obj.statusNode # NoNode /\ cloud = {obj.statusNode})

\* the sync is an UPDATE: computeOp gave a node to add and a node to delete
IsUpdate == h.op[1] # NoNode /\ h.op[2] # NoNode

\* C7: in an UPDATE sync AssignPrivateIP is issued only after ReleasePrivateIP
\* for the old node was issued and its wait returned success; after a failed
\* release request or release wait no assign is issued in that sync
C7_ReleaseBeforeAssign ==
  IsUpdate =>
    /\ (h.asg # "none" \/ pc = "AssignPrivateIP") =>
          (h.rel = "ok" /\ h.relNode = h.op[2] /\ h.relWait = "ok")
    /\ (h.rel = "err" \/ h.relWait = "err") =>
          (h.asg = "none" /\ pc # "AssignPrivateIP")

\* an UPDATE sync has released, waited and then issued the assign
C7_Witness ==
  /\ IsUpdate
  /\ h.relWait = "ok"
  /\ h.asg = "ok"
  /\ h.asgNode = h.op[1]
  /\ h.asgNode # h.relNode

\* a step in which the worker takes the key and SyncHandler computes the op
SyncStarts == pc = "idle" /\ queued /\ ~queued' /\ obj.exists

\* C8: computeOp returns, in this priority order: release(status.node) only
\* for an object with deletionTimestamp and finalizer; else release(status.node)
\* and assign(spec.node) when spec.node # status.node (no release when
\* status.node is empty); else assign(spec.node) when status.node is empty or
\* the condition is not True; else nothing
C8_ComputeOpPriority ==
  [][SyncStarts =>
       LET deleting == obj.deletionTimestamp /\ HasFinalizer
           differ == obj.specNode # obj.statusNode
           unassigned == obj.statusNode = NoNode \/ ~AssignedTrue
           nodeToAdd == h'.op[1]
           nodeToDel == h'.op[2]
       IN /\ deleting => (nodeToAdd = NoNode /\ nodeToDel = obj.statusNode)
          /\ (~deleting /\ differ) =>
               (nodeToAdd = obj.specNode /\ nodeToDel = obj.statusNode)
          /\ (~deleting /\ ~differ /\ unassigned) =>
               (nodeToAdd = obj.specNode /\ nodeToDel = NoNode)
          /\ (~deleting /\ ~differ /\ ~unassigned) =>
               (nodeToAdd = NoNode /\ nodeToDel = NoNode)]_vars

\* a sync of an object that is being deleted while spec.node # status.node
\* has computed a release only
C8_Witness ==
  /\ pc = "ReleasePrivateIP"
  /\ obj.deletionTimestamp
  /\ obj.specNode # obj.statusNode
  /\ h.op = <<NoNode, obj.statusNode>>

\* C9: after a crash inside a sync, with a cloud that never fails and a spec
\* that never changes, the reconciler settles in the state of an
\* uninterrupted run: status.node = spec.node, Assigned=True, the finalizer
\* present, the cloud holding the IP on spec.node only
C9_CrashRestartIdempotent ==
  (ReconcilerIdle /\ env.crashes > 0 /\ env.errors = 0 /\ env.ops = 0) =>
    (Converged /\ HasFinalizer /\ cloud = {obj.specNode})

WorkerStep == pc # "idle" /\ pc' # pc /\ h'.result # "crashed"

\* the step in which SyncHandler returns from the write it makes at `from`
ReturnsFrom(from) == pc = from /\ pc' = "idle" /\ h'.result # "crashed"

\* the step in which SyncHandler returns
SyncReturns == h.result = "running" /\ h'.result \in {"ok", "err"}

\* a step of the worker that persists a new state of the object
ControllerWrite == WorkerStep /\ obj' # obj /\ obj'.exists

\* C11: in an assign whose cloud request was dispatched, the finalizer is
\* persisted (when absent) before the interim status, and the interim status
\* {status.node = spec.node, Unknown, CloudResponsePending} is persisted
\* before WaitForResponse is called; when either write fails WaitForResponse
\* is not called and the sync returns an error
C11_FinalizerInterimThenWait ==
  /\ [][(pc # "AssignPendingStatus" /\ pc' = "AssignPendingStatus") =>
          /\ h'.asg = "ok"
          /\ h'.asgWait = "none"
          /\ IF pc = "AddFinalizer"
             THEN /\ Accepts(obj, local.cpic)
                  /\ ~HasFinalizer
                  /\ HasFinalizer'
                  /\ obj'.conditions = obj.conditions
             ELSE /\ pc = "AssignPrivateIP"
                  /\ ContainsFinalizer(local.cpic, cloudPrivateIPConfigFinalizer)]_vars
  /\ [][(pc # "WaitForAssign" /\ pc' = "WaitForAssign") =>
          /\ pc = "AssignPendingStatus"
          /\ h.asg = "ok"
          /\ Accepts(obj, local.cpic)
          /\ HasFinalizer /\ HasFinalizer'
          /\ obj'.statusNode = obj'.specNode
          /\ obj'.conditions =
               <<Condition(ConditionUnknown, cloudResponseReasonPending,
                           Generation(obj) + 1)>>]_vars
  /\ [][(pc \in {"AddFinalizer", "AssignPendingStatus"} /\ WorkerStep
         /\ ~Accepts(obj, local.cpic)) =>
          /\ pc' = "idle"
          /\ h'.result = "err"
          /\ h'.asgWait = "none"
          /\ obj' = obj
          /\ queued']_vars
  /\ [](h.asgWait # "none" => (h.asg = "ok" /\ h.statusWrites >= 1))

\* a sync of a new object has added the finalizer, written the interim
\* status and is waiting for the cloud
C11_Witness ==
  /\ pc = "WaitForAssign"
  /\ h.asg = "ok"
  /\ h.statusWrites = 1
  /\ HasFinalizer
  /\ obj.resourceVersion = 3
  /\ obj.statusNode = obj.specNode
  /\ obj.conditions[1].status = ConditionUnknown

\* C12: every status write carries the persisted observedGeneration + 1
\* (0 + 1 on an object without condition), so that a sync whose writes are
\* persisted advances it by +2 on a successful add, +1 on an assign-request
\* error, +2 on an assign wait error, +1 on AlreadyExistingIPError, +1 on a
\* successful delete, +1 on a release-request error, +2 on a release wait
\* error, +4 on a successful update, +3 on an update whose assign request
\* fails
C12_GenerationAdvance ==
  /\ [][(obj'.exists /\ obj'.conditions # obj.conditions) =>
          /\ WorkerStep
          /\ obj'.conditions[1].observedGeneration = Generation(obj) + 1
          /\ h'.statusWrites = h.statusWrites + 1]_vars
  /\ [][SyncReturns =>
          LET written == obj' # obj
              add == h'.op[1] # NoNode /\ h'.op[2] = NoNode
              del == h'.op[1] = NoNode /\ h'.op[2] # NoNode
              upd == h'.op[1] # NoNode /\ h'.op[2] # NoNode
              Advanced(n) ==
                /\ h'.statusWrites = n
                /\ obj'.exists => Generation(obj') = h'.generation + n
          IN /\ obj'.exists => Generation(obj') = h'.generation + h'.statusWrites
             /\ (add /\ h'.asgWait = "ok" /\ h'.result = "ok") => Advanced(2)
             /\ (add /\ h'.asg = "err" /\ written) => Advanced(1)
             /\ (add /\ h'.asgWait = "err" /\ written) => Advanced(2)
             /\ (add /\ h'.asg = "already" /\ written) => Advanced(1)
             /\ (del /\ h'.finalizerRemoved) => Advanced(1)
             /\ (h'.rel = "err" /\ written) => Advanced(1)
             /\ (h'.relWait = "err" /\ written) => Advanced(2)
             /\ (upd /\ h'.asgWait = "ok" /\ h'.result = "ok") => Advanced(4)
             /\ (upd /\ h'.asg = "err" /\ written) => Advanced(3)]_vars

\* an update sync has returned success after its four status writes, on top
\* of the two of the add
C12_Witness ==
  /\ IsUpdate
  /\ h.result = "ok"
  /\ h.asgWait = "ok"
  /\ h.statusWrites = 4
  /\ obj.exists
  /\ Generation(obj) = 6

\* C13 as stated: every state of the object the controller persists carries
\* a strictly larger observedGeneration than the state persisted before it
C13_GenerationStrictlyIncreasing ==
  [][ControllerWrite => Generation(obj') > Generation(obj)]_vars

\* C13 amended: observedGeneration never decreases across the states the
\* controller persists; a status write carries the previous value + 1, the
\* finalizer-add write leaves the status and its observedGeneration as they
\* are
C13_GenerationMonotone ==
  [][ControllerWrite =>
       IF obj'.conditions # obj.conditions \/ obj'.statusNode # obj.statusNode
       THEN /\ Generation(obj') = Generation(obj) + 1
            /\ obj'.finalizers = obj.finalizers
       ELSE /\ pc = "AddFinalizer"
            /\ Generation(obj') = Generation(obj)
            /\ obj'.conditions = obj.conditions
            /\ obj'.finalizers = obj.finalizers \cup {cloudPrivateIPConfigFinalizer}]_vars

\* an add has persisted the finalizer and two statuses on a new object
C13_Witness ==
  /\ h.result = "ok"
  /\ h.asgWait = "ok"
  /\ h.rel = "none"
  /\ HasFinalizer
  /\ Generation(obj) = 2
  /\ obj.resourceVersion = 4

\* C14 as stated: after an assign whose wait failed the persisted status is
\* {status.node = spec.node, False, CloudResponseError}, the finalizer is
\* present and the sync returns an error (the key is re-queued)
C14_WaitErrorKeepsSpecNode ==
  [][ReturnsFrom("AssignWaitErrStatus") =>
       /\ obj'.statusNode = obj'.specNode
       /\ obj'.conditions[1].status = ConditionFalse
       /\ obj'.conditions[1].reason = cloudResponseReasonError
       /\ HasFinalizer'
       /\ h'.result = "err"
       /\ queued']_vars

\* C14 amended: after an assign whose wait failed SyncHandler writes
\* {status.node empty, False, CloudResponseError, observedGeneration + 1};
\* the finalizer is present and the sync returns an error (the key is
\* re-queued); a refused write leaves the interim status
C14_WaitErrorResetsNode ==
  /\ [][ReturnsFrom("AssignWaitErrStatus") =>
          /\ h'.asgWait = "err"
          /\ HasFinalizer'
          /\ h'.result = "err"
          /\ queued'
          /\ IF Accepts(obj, local.cpic)
             THEN /\ obj'.statusNode = NoNode
                  /\ obj'.conditions =
                       <<Condition(ConditionFalse, cloudResponseReasonError,
                                   Generation(obj) + 1)>>
             ELSE obj' = obj]_vars
  /\ []((h.asgWait = "err" /\ pc # "idle") => pc = "AssignWaitErrStatus")

\* an assign whose wait failed has returned with the error status
C14_Witness ==
  /\ pc = "idle"
  /\ h.asgWait = "err"
  /\ h.result = "err"
  /\ queued
  /\ HasFinalizer
  /\ obj.statusNode = NoNode
  /\ obj.conditions[1].status = ConditionFalse
  /\ obj.conditions[1].reason = cloudResponseReasonError

\* C15: when AssignPrivateIP fails with an error other than
\* AlreadyExistingIPError, SyncHandler calls no WaitForResponse, adds no
\* finalizer, makes one status write {status.node empty, False,
\* CloudResponseError, observedGeneration + 1} and returns an error; the
\* operation computed from the state it has written is an assign without
\* release
C15_AssignErrorStatus ==
  /\ [][ReturnsFrom("AssignErrStatus") =>
          /\ h'.asg = "err"
          /\ h'.asgWait = "none"
          /\ obj'.finalizers = obj.finalizers
          /\ h'.result = "err"
          /\ queued'
          /\ local.status =
               Status(NoNode, <<Condition(ConditionFalse, cloudResponseReasonError,
                                          Generation(local.cpic) + 1)>>)
          /\ IF Accepts(obj, local.cpic)
             THEN /\ obj' = [obj EXCEPT
                       !.statusNode = NoNode,
                       !.conditions =
                          <<Condition(ConditionFalse, cloudResponseReasonError,
                                      Generation(obj) + 1)>>,
                       !.resourceVersion = @ + 1]
                  /\ h'.statusWrites = h.statusWrites + 1
                  /\ computeOp(obj') = <<obj'.specNode, NoNode>>
             ELSE /\ obj' = obj
                  /\ h'.statusWrites = h.statusWrites]_vars
  /\ []((h.asg = "err" /\ pc # "idle") => pc = "AssignErrStatus")
  /\ [](h.asg = "err" => h.asgWait = "none")

\* an add whose assign request failed has returned with the error status
C15_Witness ==
  /\ pc = "idle"
  /\ h.asg = "err"
  /\ h.result = "err"
  /\ h.statusWrites = 1
  /\ obj.exists
  /\ ~HasFinalizer
  /\ obj.statusNode = NoNode
  /\ obj.conditions[1].status = ConditionFalse
  /\ computeOp(obj) = <<obj.specNode, NoNode>>

\* C16: when ReleasePrivateIP fails, or the WaitForResponse after a release
\* fails (delete or update), the status written keeps status.node and has
\* False / CloudResponseError, the finalizer is kept and the sync returns an
\* error (the key is re-queued)
C16_ReleaseErrorKeepsNode ==
  /\ [][(ReturnsFrom("ReleaseErrStatus") \/ ReturnsFrom("ReleaseWaitErrStatus")) =>
          /\ IF pc = "ReleaseErrStatus"
             THEN h'.rel = "err" /\ h'.relWait = "none"
             ELSE h'.rel = "ok" /\ h'.relWait = "err"
          /\ h'.asg = "none"
          /\ h'.result = "err"
          /\ queued'
          /\ local.status.node = local.cpic.statusNode
          /\ local.status.node = h'.relNode
          /\ IF Accepts(obj, local.cpic)
             THEN /\ obj'.exists
                  /\ obj'.statusNode = obj.statusNode
                  /\ obj'.statusNode = h'.relNode
                  /\ obj'.finalizers = obj.finalizers
                  /\ obj'.conditions =
                       <<Condition(ConditionFalse, cloudResponseReasonError,
                                   Generation(obj) + 1)>>
             ELSE obj' = obj]_vars
  /\ []((h.rel = "err" /\ pc # "idle") => pc = "ReleaseErrStatus")
  /\ []((h.relWait = "err" /\ pc # "idle") => pc = "ReleaseWaitErrStatus")

\* a delete whose release wait failed has returned: the status still names
\* the node and the finalizer is there
C16_Witness ==
  /\ pc = "idle"
  /\ h.relWait = "err"
  /\ h.result = "err"
  /\ queued
  /\ obj.deletionTimestamp
  /\ HasFinalizer
  /\ obj.statusNode = h.relNode
  /\ obj.statusNode # NoNode
  /\ obj.conditions[1].status = ConditionFalse

(* ===================== properties of the work queue ==================== *)
\* the worker holds an item: it is between Get and Done
Holds(w, item) == worker[w].pc # "Get" /\ worker[w].item = item

\* the set of the items in the queue
Queued == {Workqueue.queue[i] : i \in 1..Len(Workqueue.queue)}

\* C17: for any key at most one worker is between Get and Done (so at most
\* one executes syncHandler for it); a key that is added while it is being
\* processed is kept (dirty) and is handed to a worker again only after Done
C17_SingleFlightPerKey ==
  /\ [](\A item \in Items :
          /\ Cardinality({w \in Workers : Holds(w, item)}) <= 1
          /\ (\E w \in Workers : Holds(w, item)) <=> item \in Workqueue.processing
          /\ item \in Workqueue.processing => item \notin Queued
          /\ (item \in Workqueue.dirty /\ item \notin Workqueue.processing)
                => item \in Queued
          /\ Cardinality({i \in 1..Len(Workqueue.queue) : Workqueue.queue[i] = item}) <= 1)
  /\ [][events'.adds # events.adds => events'.last \in Workqueue'.dirty]_vars
  /\ [][\A w \in Workers :
          (worker[w].pc = "Get" /\ worker'[w].pc # "Get") =>
             /\ \A v \in Workers : ~Holds(v, worker'[w].item)
             /\ worker'[w].item \notin Workqueue.processing]_vars
  /\ [][\A w \in Workers :
          (worker[w].pc = "Done" /\ worker'[w].pc = "Get"
           /\ worker[w].item \in Workqueue.dirty) =>
             worker[w].item \in {Workqueue'.queue[i] : i \in 1..Len(Workqueue'.queue)}]_vars

\* a key was added again while a worker runs syncHandler for it: it is kept
\* out of the queue although the other worker is free
C17_Witness ==
  \E w \in Workers, v \in Workers :
    /\ w # v
    /\ worker[w].pc = "syncHandler"
    /\ worker[w].item \in Workqueue.dirty
    /\ worker[w].item \notin Queued
    /\ worker[v].pc = "Get"

\* C18: Done is called exactly once for every item a worker takes; after an
\* error of syncHandler the key is re-added rate limited and its failures
\* are kept (one more), after a success it is forgotten and not re-added; an
\* item that is not a string is forgotten and never passed to syncHandler
C18_DoneOnceRequeueOrForget ==
  /\ [](\A w \in Workers :
          /\ worker[w].pc # "Get" => worker[w].doneCalls = 0
          /\ (worker[w].pc = "Get" /\ worker[w].item # NoItem) =>
                worker[w].doneCalls = 1
          /\ (worker[w].item # NoItem /\ ~IsString(worker[w].item)) =>
                /\ ~worker[w].synced
                /\ worker[w].pc # "syncHandler"
                /\ worker[w].pc \in {"Done", "Get"} =>
                     (worker[w].forgotten /\ ~worker[w].requeued)
          /\ worker[w].pc = "syncHandler" => IsString(worker[w].item))
  /\ [][\A w \in Workers :
          (worker[w].pc = "syncHandler" /\ worker'[w].pc = "Done") =>
             LET key == worker[w].item
             IN IF worker'[w].err = "err"
                THEN /\ key \in Workqueue'.waiting
                     /\ Workqueue'.failures[key] = Workqueue.failures[key] + 1
                     /\ worker'[w].requeued /\ ~worker'[w].forgotten
                ELSE /\ Workqueue'.failures[key] = 0
                     /\ Workqueue'.waiting = Workqueue.waiting
                     /\ Workqueue'.queue = Workqueue.queue
                     /\ Workqueue'.dirty = Workqueue.dirty
                     /\ worker'[w].forgotten /\ ~worker'[w].requeued]_vars
  /\ [][\A w \in Workers :
          (worker[w].pc = "Done" /\ worker'[w].pc = "Get") =>
             /\ Workqueue'.processing = Workqueue.processing \ {worker[w].item}
             /\ Workqueue'.failures = Workqueue.failures
             /\ Workqueue'.waiting = Workqueue.waiting
             /\ Workqueue'.queue # Workqueue.queue =>
                  worker[w].item \in Workqueue.dirty]_vars

\* a key has failed twice: it was re-added rate limited each time, Done was
\* called once for this take and the rate limiter counts two failures
C18_Witness ==
  \E w \in Workers :
    /\ worker[w].pc = "Get"
    /\ worker[w].err = "err"
    /\ worker[w].doneCalls = 1
    /\ worker[w].requeued
    /\ Workqueue.failures[worker[w].item] = 2

(* ======================= properties of the process ===================== *)
\* the external shutdown triggers that have occurred
ExternalTriggers == triggers.signals + triggers.rotations + triggers.leaseLost

\* C19: with exactly one external shutdown trigger (one signal, one
\* credential rotation or one loss of the lease) the process shuts down
\* under control: the stop channel is closed once, the global context is
\* cancelled and the controllers are waited for before main returns; it ends
\* with exit code 1 only when a second signal was sent from outside
C19_OneTriggerControlledShutdown ==
  /\ stopCh <= 1
  /\ exit = "exit 1" => triggers.signals >= 2
  /\ (exit # "running" /\ ExternalTriggers = 1) =>
        (exit = "exit 0" /\ stopCh = 1 /\ ctx /\ controllers = {})

(* ================== properties of the secret controller ================ *)
\* C20: the secret controller calls the global cancel function when, and
\* only when, the configured secret is deleted or is updated with changed
\* data (different resourceVersion, no deletionTimestamp): such an event
\* enqueues the secret's key and the sync of the key calls cancel; resyncs,
\* updates that leave the data unchanged, add events and the events of any
\* other secret enqueue nothing
C20_CancelOnlyOnRotation ==
  /\ [](cancelCalls > 0 => secretEvents.qualified)
  /\ [](secretQueue \subseteq {ConfiguredSecret})
  /\ [][secretEvents'.count # secretEvents.count =>
          /\ cancelCalls' = cancelCalls
          /\ IF secretEvents'.qualifies
             THEN ConfiguredSecret \in secretQueue'
             ELSE secretQueue' = secretQueue]_vars
  /\ [][secretQueue' # secretQueue /\ secretQueue' \subseteq secretQueue =>
          cancelCalls' = cancelCalls + 1]_vars
  /\ [][cancelCalls' # cancelCalls =>
          (ConfiguredSecret \in secretQueue /\ secretQueue' = {})]_vars

\* the data of the configured secret was changed and the controller has
\* cancelled the global context
C20_Witness ==
  /\ cancelCalls = 1
  /\ secretQueue = {}
  /\ secrets[ConfiguredSecret].exists
  /\ secrets[ConfiguredSecret].data = "d1"
  /\ ~secrets[ConfiguredSecret].deletionTimestamp

(* ==================== properties of the file watcher =================== *)
\* C21: on any WRITE event of the credentials directory the file watcher
\* triggers the controlled shutdown of the process (it sends SIGTERM to the
\* process, which keeps running until its signal handler acts), whatever
\* the outcome of reading the new credentials
C21_WriteTriggersShutdown ==
  [][watcher'.writes > watcher.writes =>
       (watcher'.kills = watcher.kills + 1 /\ exit' = "running")]_vars

(* =================== properties of the leader election ================= *)
\* C22: at any moment at most one replica executes reconciler syncs: a
\* replica runs a sync only after it acquired the lock, no two replicas are
\* inside a sync at once, and a replica makes no cloud call and no write
\* while another replica is the leader
C22_OneReplicaReconciles ==
  /\ [](\A r \in Replicas : replica[r].syncing => replica[r].pc # "acquire")
  /\ [](Cardinality({r \in Replicas : replica[r].syncing}) <= 1)
  /\ [][\A r \in Replicas :
          replica'[r].calls > replica[r].calls =>
            \A o \in Replicas \ {r} : replica[o].pc # "leading"]_vars

WellFormed(r) ==
  /\ r.method = "POST"
  /\ r.contentType = "application/json"
  /\ r.reviewDecodes /\ r.hasRequest
  /\ r.resource = "cloudprivateipconfigs"
  /\ r.objectDecodes

\* C24: the admission validator admits a CloudPrivateIPConfig create or
\* update if and only if the lookup of spec.node succeeds (the node exists
\* and the API answers); when the lookup fails the response is HTTP 200 with
\* allowed = false and a message that is the lookup's error, and the
\* webhook keeps serving
C24_AdmitIffNodeExists ==
  /\ [](admission.serving)
  /\ [][(admission'.served > admission.served
         /\ WellFormed(admission'.request)) =>
          LET r == admission'.request
              found == r.specNode \in clusterNodes /\ ~r.apiError
              response == admission'.response
          IN /\ response.code = 200
             /\ response.review
             /\ response.allowed = found
             /\ found => response.message = nil
             /\ (~found /\ ~r.apiError) =>
                   response.message = <<"nodes", r.specNode, "not found">>
             /\ (~found /\ r.apiError) =>
                   (response.message # nil /\ Len(response.message) = 1)]_vars

\* a create naming a node that does not exist was denied, and the next
\* request, naming a node that exists, is admitted
C24_Witness ==
  /\ admission.served = 2
  /\ admission.denials = 1
  /\ WellFormed(admission.request)
  /\ admission.response.allowed
  /\ admission.response.code = 200

(* ================== properties of the provider adapters ================ *)
\* the IP is present on the VM's first (primary) interface: as an address
\* of its family, or (GCP) inside an alias range
PresentOnInterface(p, ip, addresses) ==
  \/ ip \in addresses
  \/ p = "gcp" /\ \E a \in addresses : ParseCIDRContains(a, ip)

\* C25: for every provider adapter (AWS v4 and v6, Azure, GCP),
\* AssignPrivateIP called with an IP that is already present on the VM's
\* first interface returns AlreadyExistingIPError and issues no mutating
\* cloud call; for GCP also when an alias range is a CIDR that contains it
C25_PresentIPReturnsSentinel ==
  [][(/\ cloudCall'.count > cloudCall.count
      /\ cloudCall'.apiError # "get"
      /\ PresentOnInterface(cloudCall'.provider, cloudCall'.ip,
                            nic[cloudCall'.provider])) =>
       (/\ cloudCall'.err = AlreadyExistingIPError
        /\ ~cloudCall'.mutating
        /\ nic' = nic)]_vars

(* ============ properties of the item-list reconciler's functions ======== *)
\* two items are equal: both node and IP are equal
SameItem(x, y) == x.node = y.node /\ x.ip = y.ip

\* the items of the list a that are not in the list b, in the order of a
ItemsNotIn(a, b) ==
  SelectSeq(a, LAMBDA x : \A j \in DOMAIN b : ~SameItem(x, b[j]))

\* C26: computeRequestDiff returns toAdd = the items of spec.items that are
\* not in status.items and toDel = the items of status.items that are not
\* in spec.items, two items being equal iff node and IP are equal; each
\* returned keeps the order of its source list, and both are empty lists when
\* the two lists hold the same items
C26_DiffIsComplement ==
  returned.called =>
    /\ returned.toAdd = ItemsNotIn(args.specItems, args.statusItems)
    /\ returned.toDel = ItemsNotIn(args.statusItems, args.specItems)
    /\ ({args.specItems[i] : i \in DOMAIN args.specItems}
          = {args.statusItems[i] : i \in DOMAIN args.statusItems})
         => (returned.toAdd = <<>> /\ returned.toDel = <<>>)

\* the node of an item changed: the old item is to delete, the new to add,
\* the item that did not change is in neither list
C26_Witness ==
  /\ returned.called
  /\ Len(args.specItems) = 2 /\ Len(args.statusItems) = 2
  /\ Len(returned.toAdd) = 1 /\ Len(returned.toDel) = 1
  /\ returned.toAdd[1].ip = returned.toDel[1].ip
  /\ returned.toAdd[1].node # returned.toDel[1].node

\* C27: isValidSpec returns no error if and only if every item has a
\* parseable IP, no (node, IP) pair occurs twice and no IP occurs on two
\* different nodes; a repeated pair is reported as a duplicate item before
\* any other rule, an unparseable IP as an invalid IP, an IP listed for two
\* nodes as defined on multiple nodes
C27_ValidIffUniqueParseable ==
  returned.called =>
    LET items == args.items
        repeated == \E i, j \in DOMAIN items :
                      i # j /\ SameItem(items[i], items[j])
        unparseable == \E i \in DOMAIN items : ParseIP(items[i].ip) = NoIP
        twoNodes == \E i, j \in DOMAIN items :
                      /\ ParseIP(items[i].ip) # NoIP
                      /\ ParseIP(items[i].ip) = ParseIP(items[j].ip)
                      /\ items[i].node # items[j].node
    IN /\ (returned.err = "nil") = (~repeated /\ ~unparseable /\ ~twoNodes)
       /\ repeated => returned.err = "duplicate items found in the .spec stanza"
       /\ returned.err = "invalid IP address found in the .spec stanza"
            => unparseable
       /\ returned.err = "IP has been defined on multiple nodes" => twoNodes

(* ================ the writes of a delete, concurrent updates ============ *)
\* the sync that is running is a delete: its object has a deletionTimestamp
\* and the finalizer, computeOp gave nothing to add
DeleteSync ==
  /\ local.cpic.deletionTimestamp
  /\ local.nodeToAdd = NoNode
  /\ local.nodeToDel # NoNode

\* C28: in a delete (deletionTimestamp set, finalizer present) whose release
\* and wait succeed, SyncHandler writes the status once, the interim
\* {status.node unchanged, Unknown, CloudResponsePending, observedGeneration
\* + 1}, and then writes the object once, without the finalizer and with
\* that status; it issues no assign and returns nil
C28_SuccessfulDeleteWrites ==
  /\ [][(DeleteSync /\ pc = "ReleasePendingStatus" /\ pc' = "WaitForRelease") =>
          /\ h.statusWrites = 0
          /\ h'.statusWrites = 1
          /\ obj'.statusNode = obj.statusNode
          /\ obj'.statusNode = local.nodeToDel
          /\ obj'.conditions =
               <<Condition(ConditionUnknown, cloudResponseReasonPending,
                           Generation(obj) + 1)>>
          /\ obj'.finalizers = obj.finalizers
          /\ obj'.specNode = obj.specNode]_vars
  /\ [][(~h.finalizerRemoved /\ h'.finalizerRemoved) =>
          /\ pc = "RemoveFinalizer"
          /\ h.rel = "ok" /\ h.relWait = "ok"
          /\ h.statusWrites = 1
          /\ h'.statusWrites = 1
          /\ h'.asg = "none" /\ h'.asgWait = "none"
          /\ h'.result = "ok"
          /\ pc' = "idle"
          /\ obj.statusNode = h.relNode
          /\ obj.conditions =
               <<Condition(ConditionUnknown, cloudResponseReasonPending,
                           h.generation + 1)>>
          /\ local.cpic.statusNode = obj.statusNode
          /\ local.cpic.conditions = obj.conditions
          /\ ~ContainsFinalizer(local.cpic, cloudPrivateIPConfigFinalizer)
          /\ ~HasFinalizer']_vars
  /\ []((pc # "idle" /\ DeleteSync) => (h.asg = "none" /\ h.statusWrites <= 1))

\* a delete has returned nil after one status write and the removal of the
\* finalizer, without an assign
C28_Witness ==
  /\ pc = "idle"
  /\ h.result = "ok"
  /\ h.op[1] = NoNode
  /\ h.op[2] # NoNode
  /\ h.statusWrites = 1
  /\ h.finalizerRemoved
  /\ h.asg = "none"
  /\ h.generation >= 2
  /\ ~obj.exists

\* the sync is at or past WaitForResponse for its assign and has not yet
\* written the status that follows it
AssignInFlight == pc \in {"WaitForAssign", "FinalStatus", "AssignWaitErrStatus"}

\* C29: when the consumer changes spec.node while a sync is blocked in
\* WaitForResponse for an assign to node A, the key is enqueued and stays so
\* until that sync has ended, and the sync ends with status.node = A still
\* persisted; a sync that starts on an object whose status.node is A and
\* whose spec.node is another node releases the IP from A and waits for the
\* release before it assigns to spec.node; once such a sync has waited for
\* the release, and when it has converged on the new node, the cloud does
\* not hold the IP on A
C29_ChangeDuringAssignWait ==
  /\ [][(pc = "WaitForAssign" /\ obj'.specNode # obj.specNode) =>
          /\ pc' = "WaitForAssign"
          /\ queued'
          /\ obj'.statusNode = local.nodeToAdd
          /\ ~Accepts(obj', local.cpic)]_vars
  /\ []((AssignInFlight /\ ~Accepts(obj, local.cpic)) =>
          (queued /\ obj.exists /\ obj.statusNode = local.nodeToAdd))
  /\ [][(AssignInFlight /\ WorkerStep /\ pc' = "idle" /\ ~Accepts(obj, local.cpic)) =>
          /\ obj' = obj
          /\ h'.result = "err"
          /\ queued']_vars
  /\ [][(SyncStarts /\ obj.statusNode # NoNode /\ obj.specNode # obj.statusNode) =>
          /\ pc' = "ReleasePrivateIP"
          /\ local'.nodeToDel = obj.statusNode
          /\ h'.op[2] = obj.statusNode
          /\ (~obj.deletionTimestamp => h'.op[1] = obj.specNode)]_vars
  /\ []((h.op[2] # NoNode /\ h.asg # "none") =>
          /\ h.rel = "ok" /\ h.relNode = h.op[2]
          /\ h.relWait = "ok"
          /\ h.asgNode = h.op[1]
          /\ h.asgNode # h.relNode)
  /\ []((h.op[1] # NoNode /\ h.relWait = "ok") => h.op[2] \notin cloud)
  /\ []((/\ h.result = "ok" /\ h.op[1] # NoNode /\ h.op[2] # NoNode
         /\ AssignedTrue /\ obj.statusNode = obj.specNode) =>
          /\ obj.statusNode = h.op[1]
          /\ h.op[2] \notin cloud
          /\ obj.statusNode \in cloud)

\* spec.node was changed once, after the first sync had persisted its interim
\* status and before its last status write, that is while it waited for the
\* cloud (that write was refused: the observedGeneration is 5 and not 6,
\* and there was no error and no crash); the following sync has released
\* the IP from the old node, assigned it to the new one and converged
C29_Witness ==
  /\ pc = "idle"
  /\ h.result = "ok"
  /\ h.op[1] # NoNode /\ h.op[2] # NoNode
  /\ h.rel = "ok" /\ h.relWait = "ok" /\ h.asg = "ok" /\ h.asgWait = "ok"
  /\ env.errors = 0 /\ env.crashes = 0 /\ env.ops = 1
  /\ AssignedTrue
  /\ Generation(obj) = 5
  /\ obj.statusNode = obj.specNode
  /\ cloud = {obj.specNode}

(* ====================== properties of a retried write =================== *)
\* C30: a write that fails with a resource-version conflict is attempted
\* again, at most DefaultRetrySteps times in all, and each attempt sends the
\* reconciler's object with the status it intended to write; when an attempt
\* succeeds the sync goes on with the object that write returned; when all
\* fail the sync returns an error and the key is queued again
C30_ConflictRetried ==
  /\ [](attempt.n <= DefaultRetrySteps)
  /\ [][(attempt'.n = attempt.n + 1) =>
          /\ attempt'.sent.status = "intended"
          /\ attempt'.sent.object.kind = "object"]_vars
  /\ [][(attempt'.n = attempt.n + 1 /\ attempt'.err = "nil") =>
          /\ apiObject'.status = "intended"
          /\ attempt'.result \in {"continues", "returns nil"}
          /\ attempt'.result = "continues" =>
               attempt'.cpic = ObjectAt(apiObject'.resourceVersion)]_vars
  /\ []((attempt.pc = "returned" /\ attempt.err # "nil") =>
          (attempt.result = "returns err" /\ attempt.requeued))

(* =================== properties of the entry of SyncHandler ============= *)
\* the node SyncHandler looks up first: the one to release from, else the
\* one to assign to
NodeLookedUp ==
  LET op == computeOp(args.cpic)
  IN IF op[2] # NoNode THEN op[2] ELSE op[1]

\* SyncHandler came to a node lookup and the node cache does not hold the node
NodeNotFound ==
  /\ returned.called
  /\ args.key = WellFormedKey
  /\ args.cpic.exists
  /\ NodeLookedUp # NoNode
  /\ NodeLookedUp \notin args.nodes

\* C31: when the node to assign to or to release from is not in the node
\* cache, SyncHandler issues no cloud call and no write, the worker does not
\* crash, and the key is dropped (forgotten, not queued again)
C31_NodeNotFoundDropsKey ==
  NodeNotFound =>
    /\ returned.cloudCalls = 0
    /\ returned.writes = 0
    /\ returned.worker # "crash"
    /\ returned.worker = "Forget"

\* C32: when the lister does not hold the object of the key, or the key is
\* malformed, SyncHandler returns nil without a cloud call or a write, and
\* the key is forgotten and not queued again
C32_MissingObjectReturnsNil ==
  (returned.called /\ (args.key = MalformedKey \/ ~args.cpic.exists)) =>
    /\ returned.outcome = "return nil"
    /\ returned.cloudCalls = 0
    /\ returned.writes = 0
    /\ returned.worker = "Forget"

\* the key of an object that is gone was processed and forgotten
C32_Witness ==
  /\ returned.called
  /\ args.key = WellFormedKey
  /\ ~args.cpic.exists
  /\ returned.outcome = "return nil"
  /\ returned.worker = "Forget"

(* ========================= the NOOP and the events ===================== *)
\* the object is assigned where the consumer wants it and is not a deletion
\* the controller has to act on
Settled(o) ==
  /\ o.exists
  /\ o.specNode = o.statusNode
  /\ o.statusNode # NoNode
  /\ o.conditions[1].status = ConditionTrue
  /\ ~(o.deletionTimestamp /\ ContainsFinalizer(o, cloudPrivateIPConfigFinalizer))

\* C33: a sync of an object with spec.node = status.node (not empty) and
\* Assigned = True, which is not a deletion with the finalizer present, is a
\* no-op: no cloud call, no write, status, finalizers and observedGeneration
\* unchanged, and it returns nil
C33_SettledIsNoop ==
  [][(SyncStarts /\ Settled(obj)) =>
       /\ pc' = "idle"
       /\ obj' = obj
       /\ cloud' = cloud
       /\ h'.op = <<NoNode, NoNode>>
       /\ h'.rel = "none" /\ h'.asg = "none"
       /\ h'.relWait = "none" /\ h'.asgWait = "none"
       /\ h'.statusWrites = 0
       /\ ~h'.finalizerRemoved
       /\ h'.result = "ok"]_vars

\* the key of a settled object was processed: nothing was done
C33_Witness ==
  /\ pc = "idle"
  /\ ~queued
  /\ Settled(obj)
  /\ h.result = "ok"
  /\ h.op = <<NoNode, NoNode>>
  /\ h.statusWrites = 0
  /\ cloud = {obj.statusNode}

\* the object was updated and is still there: the informer calls UpdateFunc
UpdateEvent == obj.exists /\ obj'.exists /\ obj' # obj

\* the only way the key gets queued in this step is an event: the step is
\* not the return of a sync with an error
NoRequeue == h'.result # "err" \/ h.result = "err"

\* C34: an update event enqueues the key if and only if the spec changed or
\* the new object has a deletionTimestamp and the finalizer; so the status
\* and finalizer writes of the reconciler on an object that is not being
\* deleted never enqueue the key; add and delete events always enqueue it
C34_UpdateEnqueuesOnSpecOrDeletion ==
  /\ [][(UpdateEvent /\ ~queued /\ NoRequeue) =>
          (queued' <=> (\/ obj'.specNode # obj.specNode
                        \/ (obj'.deletionTimestamp /\ HasFinalizer')))]_vars
  /\ [][(ControllerWrite /\ ~obj'.deletionTimestamp /\ NoRequeue) =>
          /\ obj'.specNode = obj.specNode
          /\ queued' = queued]_vars
  /\ [][(obj.exists /\ ~obj'.exists) => queued']_vars
  /\ [][(h'.result = "crashed" /\ h.result # "crashed" /\ obj.exists) => queued']_vars

\* an add has written the finalizer and two statuses, nobody else wrote the
\* object, and the key is not queued
C34_Witness ==
  /\ pc = "idle"
  /\ ~queued
  /\ h.result = "ok"
  /\ h.statusWrites = 2
  /\ env.ops = 0 /\ env.crashes = 0
  /\ obj.resourceVersion = 4
  /\ HasFinalizer
  /\ ~obj.deletionTimestamp

(* ============================ properties of Run ========================= *)
\* a worker goroutine was started
WorkerStarted(w) == run.worker[w] # "none"

\* C35: no sync is invoked, and no worker started, before every informer
\* cache of the controller has synced; when the stop channel is closed
\* before the caches have synced, Run returns an error and starts no worker
C35_NoSyncBeforeCachesSynced ==
  /\ []((run.syncs > 0 \/ \E w \in Workers : WorkerStarted(w)) =>
          run.synced = RunInformers)
  /\ []((run.stopped /\ run.synced # RunInformers) =>
          /\ run.pc \in {"WaitForCacheSync", "returned err"}
          /\ run.syncs = 0
          /\ \A w \in Workers : ~WorkerStarted(w))
  /\ [][(run.pc = "WaitForCacheSync" /\ run'.pc # run.pc /\ run.stopped
         /\ run.synced # RunInformers) =>
          run'.pc = "returned err"]_vars
  /\ [](run.pc = "returned err" =>
          (run.stopped /\ run.syncs = 0 /\ \A w \in Workers : ~WorkerStarted(w)))

\* the stop came when one cache had synced and a key was waiting: Run has
\* returned an error, no worker was started and the key was not processed
C35_Witness ==
  /\ run.pc = "returned err"
  /\ Cardinality(run.synced) = 1
  /\ run.queue > 0
  /\ run.syncs = 0
  /\ \A w \in Workers : ~WorkerStarted(w)

\* C36: when the stop channel is closed Run shuts the work queue down and
\* does not return before every worker has finished the item it processes;
\* after the shutdown no item is dispatched to a sync
C36_RunWaitsForWorkers ==
  /\ [](run.pc \in {"returned nil", "returned err"} => run.shuttingDown)
  /\ [][(run.pc # "returned nil" /\ run'.pc = "returned nil") =>
          \A w \in Workers : run.worker[w] # "syncHandler"]_vars
  /\ [](~run.lateDispatch)

(* =================== properties of the node annotation ================= *)
\* C37: for a node without the annotation, a node without any annotation
\* included, a sync whose GetNodeSubnet succeeded persists the annotation
\* and leaves the other annotations of the node as they are (when the node
\* was not written since the sync read it and the process is not restarted
\* from outside); when GetNodeSubnet fails no
\* node is modified and the key is queued again
C37_AnnotationPersisted ==
  /\ [][(/\ nodeSync.pc = "Update"
         /\ nodeSync'.pc # "Update"
         /\ nodeHist'.events = nodeHist.events
         /\ nodes[nodeSync.key].exists
         /\ nodes[nodeSync.key].resourceVersion =
              nodeSync.node.resourceVersion) =>
          /\ nodes'[nodeSync.key].annotation = "subnets"
          /\ nodes'[nodeSync.key].others = nodes[nodeSync.key].others]_vars
  /\ [][nodeHist'.errors > nodeHist.errors =>
          /\ nodes' = nodes
          /\ nodeSync.key \in nodeQueue']_vars

(* ================= properties of GCP.ReleasePrivateIP ================== *)
\* the alias range is the target: the IP it is, or the address of the CIDR
\* it is, equals the target IP
IsTarget(ip, aliasIPRange) ==
  \/ ParseIP(aliasIPRange) = ip
  \/ ParseCIDRAddress(aliasIPRange) = ip

\* C38: GCP ReleasePrivateIP rewrites the alias ranges of the first network
\* interface only: the ranges it sends are the ranges that are not the
\* target, each once and in their order; the other interfaces are left as
\* they are and no call is made for them
C38_FirstInterfaceRewritten ==
  returned.called =>
    /\ returned.updated \subseteq {1}
    /\ Len(returned.interfaces) = Len(args.interfaces)
    /\ \A i \in DOMAIN args.interfaces :
         i > 1 => returned.interfaces[i] = args.interfaces[i]
    /\ (returned.err = "nil" /\ args.interfaces # <<>>) =>
         /\ returned.updated = {1}
         /\ returned.interfaces[1] =
              SelectSeq(args.interfaces[1],
                        LAMBDA a : ~IsTarget(args.ip, a))
    /\ returned.err # "nil" => returned.interfaces = args.interfaces

(* ============ properties of the adapters' address sets ================= *)
\* the texts the cloud may hold for an IP
FormsOf(ip) ==
  {a \in AddressTexts : ParseIP(a) = ip \/ ParseCIDRAddress(a) = ip}

\* an adapter call has ended without error
AdapterCallDone == cloudCall'.count > cloudCall.count /\ cloudCall'.err = "nil"

ItemsOf(list) == {list[i] : i \in DOMAIN list}

\* C40: a sync of the item lists releases the items of status - spec first
\* and returns an error before any assign when a release fails; after a
\* sync without error the persisted status.items holds the items of
\* spec.items; after a sync in which some assign fails the persisted
\* status.items holds the items that are assigned (those assigned before
\* and still requested, and those the sync assigned) and the sync returns
\* an error
C40_StatusListsAssignedItems ==
  returned.called =>
    /\ returned.err \in {"release error"} => returned.assigned = <<>>
    /\ ItemsOf(returned.released)
         \subseteq ItemsOf(args.statusItems) \ ItemsOf(args.specItems)
    /\ returned.err = "nil" =>
         ItemsOf(returned.statusItems) = ItemsOf(args.specItems)
    /\ returned.err = "updated with an incomplete status" =>
         ItemsOf(returned.statusItems) =
           (ItemsOf(args.statusItems) \cap ItemsOf(args.specItems))
             \cup ItemsOf(returned.assigned)

====
